---- MODULE Spec2Model ----
(***************************************************************************)
(* The SumDB auditor (package audit, Service): CloneLeafTiles, HashTiles   *)
(* and CheckRootHash over a local store and a remote log, with the         *)
(* compact-range hasher they use.  Hashes are symbolic and injective:      *)
(* RecordHash(l) = <<0, l>>, NodeHash(l, r) = <<1, l, r>>.                 *)
(* With it, the tile codec and tile addressing of the serverless log       *)
(* (api.Tile, TileNodeKey, NodeCoordsToTileAddress).                       *)
(***************************************************************************)
EXTENDS Integers, Sequences, FiniteSets, TLC

\* ------------------------------------------------------------------ bounds
\* Largest tile height drawn for Service.height.
MaxHeight == 2
\* Number of leaves of the remote log; checkpoints have treeSize 0..MaxTree.
MaxTree == 8
\* Largest number of retries one backoff.Retry makes before it gives up.
MaxRetries == 1
\* Largest treeSize of the root-check specification.
MaxRootTree == 20
\* Number of store corruptions the environment makes.
MaxCorrupt == 1
\* Number of store and remote faults the environment injects.
MaxFaults == 1
\* Largest tree of the tile-verification specification, and the number of
\* slots of its store that are corrupted.
MaxVerifyTree == 9
MaxBadSlots == 2
\* The getTORKey calls (starts of the witness) of one behaviour, and the
\* bytes of a key.
MaxTorCalls == 3
KeyLength == 2
\* Largest treeSize of the specification of HashTiles on a tampered store.
MaxTamperTree == 8
\* Largest treeSize ProcessMetadata is called with.
MaxMetaTree == 6
\* Largest tile height, largest of the consecutive leaf counts and largest
\* power of two of the leaf counts getLevelsForLeafCount is called with.
MaxLevelsHeight == 8
MaxLeafCount == 600
MaxLeafBits == 29
\* Largest treeSize of the specification of HashTiles on its own.
MaxHashTree == 16
\* Largest partial tile drawn for the codec (the full tile is drawn too).
MaxTileLeaves == 4
\* Largest numLeaves byte and largest payload, in hashes, of the encoded
\* inputs drawn for UnmarshalBinary.
MaxRawLeaves == 3
MaxRawHashes == 6
\* Largest tree index drawn for NodeCoordsToTileAddress.
MaxTreeIndex == 520

\* ------------------------------------------------------------- constants
\* hash size in bytes (SHA256), the first byte of an encoded tile.
HashSize == 32
\* The slots of a full tile's level 0: the bound of the loop of TileSize.
MaxTileSize == 256
\* Height of a serverless tile: 2^8 leaves.
TileHeight == 8

\* ---------------------------------------------------------------- helpers
Pow2(n) == 2 ^ n

Min(a, b) == IF a < b THEN a ELSE b

\* The element of a one-element set: The({F(x) : x \in {e}}) is F(e) with e
\* evaluated once.
The(S) == CHOOSE x \in S : TRUE

\* Go's integer division truncates toward zero.
GoDiv(a, b) == IF a >= 0 THEN a \div b ELSE -((-a) \div b)

\* bits.TrailingZeros64, bits.Len64, bits.OnesCount64 and ^ on uint64.
RECURSIVE TrailingZeros64(_)
TrailingZeros64(x) ==
    IF x = 0 THEN 64
    ELSE IF x % 2 = 1 THEN 0 ELSE 1 + TrailingZeros64(x \div 2)

RECURSIVE Len64(_)
Len64(x) == IF x = 0 THEN 0 ELSE 1 + Len64(x \div 2)

RECURSIVE OnesCount64(_)
OnesCount64(x) == IF x = 0 THEN 0 ELSE (x % 2) + OnesCount64(x \div 2)

RECURSIVE Xor64(_, _)
Xor64(a, b) ==
    IF a = 0 THEN b
    ELSE IF b = 0 THEN a
    ELSE ((a + b) % 2) + 2 * Xor64(a \div 2, b \div 2)

\* ----------------------------------------------------------------- hashes
\* tlog.RecordHash: SHA256(0x00 || leaf).
RecordHash(l) == <<0, l>>

\* tlog.NodeHash: SHA256(0x01 || left || right).
NodeHash(l, r) == <<1, l, r>>

\* The all-zero tlog.Hash (a [32]byte nothing was copied into).
ZeroHash == <<2, 0>>

\* The root hash the remote log signs for the empty tree.
EmptyTreeHash == <<3, 0>>

\* A hash that is no hash of the remote log: a corrupted slot, a wrong root.
BadHash == <<4, 0>>

\* --------------------------------------------------------- compact ranges
\* compact.Range: {begin, end, hashes}.
NewEmptyRange(begin) == [begin |-> begin, end |-> begin, hashes |-> <<>>]

\* getMergePath(begin, mid, end); mid - 1 wraps to 2^64 - 1 when mid = 0.
GetMergePath(begin, mid, end) ==
    LET low   == TrailingZeros64(mid)
        high1 == IF begin # 0 THEN Len64(Xor64(mid, begin - 1)) ELSE 64
        high2 == IF mid = 0 THEN 64 ELSE Len64(Xor64(mid - 1, end))
    IN  <<low, Min(high1, high2) - 1>>

\* The merge loop of appendImpl: n steps along the bits of index; idx1 nodes
\* of the left range and the nodes after idx2 of the right one are left.
RECURSIVE MergeLoop(_, _, _, _, _, _, _)
MergeLoop(n, index, seed, left, idx1, right, idx2) ==
    IF n = 0 THEN [seed |-> seed, idx1 |-> idx1, idx2 |-> idx2]
    ELSE IF index % 2 = 0
         THEN MergeLoop(n - 1, index \div 2, NodeHash(seed, right[idx2 + 1]),
                        left, idx1, right, idx2 + 1)
         ELSE MergeLoop(n - 1, index \div 2, NodeHash(left[idx1], seed),
                        left, idx1 - 1, right, idx2)

\* Range.appendImpl; the range is returned unchanged when it reports an error
\* (the Service ignores the errors of Append and AppendRange).
AppendImpl(r, end, seed, hashes) ==
    LET mp    == GetMergePath(r.begin, r.end, end)
        low   == mp[1]
        high  == IF mp[2] < low THEN low ELSE mp[2]
        index == IF low >= 64 THEN 0 ELSE r.end \div Pow2(low)
        n     == high - low
        ones  == OnesCount64(index % Pow2(n))
    IN  IF Len(r.hashes) < ones \/ Len(hashes) < n - ones
        THEN r
        ELSE The({[begin |-> r.begin, end |-> end,
                   hashes |-> SubSeq(r.hashes, 1, m.idx1) \o <<m.seed>>
                              \o SubSeq(hashes, m.idx2 + 1, Len(hashes))] :
                  m \in {MergeLoop(n, index, seed, r.hashes, Len(r.hashes),
                                   hashes, 0)}})

\* Range.Append(hash, nil).
RangeAppend(r, hash) == AppendImpl(r, r.end + 1, hash, <<>>)

\* Range.AppendRange(other, nil): refused when other does not begin at r.end.
AppendRange(r, other) ==
    IF other.begin # r.end THEN r
    ELSE IF Len(other.hashes) = 0 THEN r
    ELSE AppendImpl(r, other.end, Head(other.hashes), Tail(other.hashes))

\* for _, h := range hs { r.Append(h, nil) }, from the i-th hash on.
RECURSIVE AppendFrom(_, _, _)
AppendFrom(r, hs, i) ==
    IF i > Len(hs) THEN r
    ELSE The({AppendFrom(x, hs, i + 1) : x \in {RangeAppend(r, hs[i])}})

AppendAll(r, hs) == The({AppendFrom(x, hs, 1) : x \in {r}})

\* compact.Decompose(begin, end): the number of hashes of the range [begin, end).
DecomposeOnes(begin, end) ==
    IF begin = 0 THEN OnesCount64(end)
    ELSE LET xbegin == begin - 1
             d      == Len64(Xor64(xbegin, end)) - 1
         IN  (d - OnesCount64(xbegin % Pow2(d))) + OnesCount64(end % Pow2(d))

\* RangeFactory.NewRange: ok is FALSE when it returns an error.
NewRange(begin, end, hashes) ==
    IF end < begin \/ Len(hashes) # DecomposeOnes(begin, end)
    THEN [ok |-> FALSE, range |-> NewEmptyRange(begin)]
    ELSE [ok |-> TRUE, range |-> [begin |-> begin, end |-> end, hashes |-> hashes]]

\* for i := ln - 2; i >= 0; i-- { hash = r.f.Hash(r.hashes[i], hash) }
RECURSIVE FoldRight(_, _, _)
FoldRight(hs, i, hash) ==
    IF i < 1 THEN hash ELSE FoldRight(hs, i - 1, NodeHash(hs[i], hash))

\* Range.GetRootHash(nil): nil (here <<>>) for the empty range.
GetRootHash(r) ==
    IF r.begin # 0 THEN [ok |-> FALSE, root |-> <<>>]
    ELSE IF r.hashes = <<>> THEN [ok |-> TRUE, root |-> <<>>]
    ELSE [ok |-> TRUE,
          root |-> FoldRight(r.hashes, Len(r.hashes) - 1,
                             r.hashes[Len(r.hashes)])]

\* copy(rootHash[:], root) into a zero tlog.Hash.
CopyHash(root) == IF root = <<>> THEN ZeroHash ELSE root

\* ------------------------------------------------------------- remote log
\* Leaf i of the remote log (leaf bodies are numbered from 1; 0 is no leaf).
RemoteLeaf(i) == i + 1

\* RemoteLog.FullLeavesAtOffset(offset): the 2^H leaves from offset * 2^H.
FullLeavesAtOffset(h, offset) ==
    [j \in 1..Pow2(h) |-> RemoteLeaf(offset * Pow2(h) + j - 1)]

\* RemoteLog.PartialLeavesAtOffset(offset, count): count stragglers.
PartialLeavesAtOffset(h, offset, count) ==
    [j \in 1..count |-> RemoteLeaf(offset * Pow2(h) + j - 1)]

\* The RFC6962 Merkle tree hash of remote leaves [lo, lo + n), n >= 1.
RECURSIVE SplitPoint(_, _)
SplitPoint(n, k) == IF 2 * k >= n THEN k ELSE SplitPoint(n, 2 * k)

RECURSIVE MerkleRoot(_, _)
MerkleRoot(lo, n) ==
    IF n = 1 THEN RecordHash(RemoteLeaf(lo))
    ELSE LET k == SplitPoint(n, 1)
         IN  NodeHash(MerkleRoot(lo, k), MerkleRoot(lo + k, n - k))

\* The root hash the remote log publishes at treeSize n.
TreeHash(n) == IF n = 0 THEN EmptyTreeHash ELSE MerkleRoot(0, n)

\* ----------------------------------------------------------------- errors
\* An error value: its kind and the (level, offset, slot) it cites (-1: none).
Err(kind, level, offset, slot) ==
    [kind |-> kind, level |-> level, offset |-> offset, slot |-> slot]

\* The nil error.
NoErr == Err("nil", -1, -1, -1)

\* ------------------------------------------------------------------ state
VARIABLES
    height,      \* Service.height
    leaves,      \* local store: the leaves table, leaf i at position i + 1
    tiles,       \* local store: the tiles table, <<level, offset>> -> hashes
    checkpoint,  \* the checkpoint of the run
    phase,       \* "idle", "cloning" (CloneLeafTiles), "hashing" (HashTiles)
    result,      \* the last Service call that returned
    clone,       \* CloneLeafTiles' locals and its consumer loop
    producer,    \* the producer goroutine of CloneLeafTiles
    cancelled,   \* the ctx of the run is cancelled
    tasks,       \* HashTiles: level -> the level's goroutine
    chans,       \* HashTiles: level -> the channel the level sends its roots on
    groupErr,    \* HashTiles: the first error the errgroup recorded
    nFetch,      \* calls to the remote log of the current Service call
    nWrite,      \* WriteLeaves calls of the current Service call
    nSetTile,    \* SetTile calls of the current Service call
    faulted,     \* a store or remote fault hit the current Service call
    exhausted,   \* chunk index whose fetch exhausted its backoff (-1: none)
    streak,      \* phases of the run that succeeded on the checkpoint so far
    nFaults,     \* faults injected so far
    corrupted,   \* corruptions of the store so far
    audit,       \* progress of the re-audit after a corruption
    tile,        \* serverless: the api.Tile a codec call has as receiver
    raw,         \* serverless: the bytes a codec call returns or is given
    codec,       \* serverless: the last codec call that returned
    coords,      \* serverless: a tree node and the tile address found for it
    keyed,       \* serverless: the nodes of one tile and their TileNodeKey
    levels,      \* a getLevelsForLeafCount call and what it returned
    meta,        \* a ProcessMetadata call, its SetLeafMetadata calls and error
    sized,       \* serverless: what a TileSize call returned
    tor          \* witness-tor: the key files and the getTORKey calls made

vars == <<height, leaves, tiles, checkpoint, phase, result, clone, producer,
          cancelled, tasks, chans, groupErr, nFetch, nWrite, nSetTile, faulted,
          exhausted, streak, nFaults, corrupted, audit,
          tile, raw, codec, coords, keyed, levels, meta, sized, tor>>

serverlessVars == <<tile, raw, codec, coords, keyed>>
callVars == <<levels, meta, sized, tor>>
serviceVars == <<height, leaves, tiles, checkpoint, phase, result, clone,
                 producer, cancelled, tasks, chans, groupErr, nFetch, nWrite,
                 nSetTile, faulted, exhausted, streak, nFaults, corrupted,
                 audit>>
storeVars == <<leaves, tiles>>
cloneVars == <<clone, producer, cancelled, nFetch, exhausted>>
hashVars  == <<tasks, chans, groupErr>>

\* tileWidth := 1 << s.height
TileWidth == Pow2(height)

\* The checkpoints the remote log publishes: one per treeSize.
Checkpoints == {[N |-> n, Hash |-> TreeHash(n)] : n \in 0..MaxTree}

\* The environment may still inject a fault.  The re-audit of a corrupted
\* store runs without faults: its errors come from the corruption alone.
MayFault == nFaults < MaxFaults /\ audit = "none"

\* ------------------------------------------------------------ local store
\* LocalStore.Head(): the largest leaf index written, -1 when empty (the
\* error the Service turns into -1).
LocalHead == Len(leaves) - 1

\* LocalStore.WriteLeaves(ctx, start, leaves) succeeds: start = Head() + 1
\* and the ctx is live; the block is then appended atomically.
WriteLeavesOk(start) == start = LocalHead + 1 /\ ~cancelled

\* LocalStore.Tile(H, level, offset) finds a tile (else: not present).
TilePresent(ts, level, offset) == <<level, offset>> \in DOMAIN ts

\* LocalStore.Leaves(start, count): all count leaves are there.
LeavesPresent(start, count) == start + count <= Len(leaves)

\* LocalStore.SetTile(H, level, offset, blob).
SetTile(ts, level, offset, hashes) ==
    [c \in DOMAIN ts \cup {<<level, offset>>} |->
        IF c = <<level, offset>> THEN hashes ELSE ts[c]]

NoTiles == [c \in {} |-> <<>>]

\* ------------------------------------------------- getLevelsForLeafCount
RECURSIVE LevelsLoop(_, _, _)
LevelsLoop(h, coveredIdx, topLevel) ==
    IF coveredIdx > 0
    THEN LevelsLoop(h, coveredIdx \div Pow2(h), topLevel + 1)
    ELSE topLevel

\* The same loop with topLevel := 0.
LevelsFromZero(h, n) == LevelsLoop(h, n \div Pow2(h), 0)

GetLevelsForLeafCount(h, n) == LevelsLoop(h, n \div Pow2(h), -1)

\* ---------------------------------------------------------- the run's driver
\* The client calls CloneLeafTiles, HashTiles and CheckRootHash in this order
\* on one checkpoint and stops at the first error; the next run starts again
\* with CloneLeafTiles.  streak counts the calls that succeeded: 1 clone,
\* 2 hash, 3 check, and 4, 5, 6 the same three calls run again.
StreakAfter(op, s, err) ==
    IF err # NoErr THEN 0
    ELSE CASE op = "clone" -> IF s = 3 THEN 4 ELSE 1
           [] op = "hash"  -> IF s \in {1, 4} THEN s + 1 ELSE IF s >= 5 THEN 5 ELSE 2
           [] OTHER        -> IF s \in {2, 5} THEN s + 1 ELSE s

\* The call that returns is part of the second pass over the checkpoint.
IsRerun(op, s) ==
    \/ op = "clone" /\ s = 3
    \/ op = "hash"  /\ s = 4
    \/ op = "check" /\ s = 5

\* The re-audit after a corruption: HashTiles, then CheckRootHash, on the
\* checkpoint that was cloned and hashed before the store was corrupted.
\* The client starts no new clone on a store it is re-auditing.
AuditAfter(op, err) ==
    CASE audit = "tampered" /\ op = "hash" ->
            IF err = NoErr THEN "rehashed" ELSE "detected"
      [] audit = "rehashed" /\ op = "check" ->
            IF err = NoErr THEN "accepted" ELSE "detected"
      [] audit \in {"accepted", "detected"} -> audit
      [] OTHER -> "none"

\* The call that returns belongs to a run on the checkpoint of treeSize n
\* that follows a run on the same checkpoint which a fault (or a cancel)
\* failed in CloneLeafTiles or HashTiles.
RetryOf(n) ==
    /\ result.op \in {"clone", "hash"}
    /\ result.err # NoErr
    /\ result.faulted
    /\ result.n = n

\* What is recorded of a call when it returns.
Returned(op, err, head, f) ==
    [op |-> op, err |-> err, head |-> head, rerun |-> IsRerun(op, streak),
     faulted |-> f, n |-> checkpoint.N,
     retry |-> IF op = "clone" THEN RetryOf(checkpoint.N) ELSE result.retry]

\* --------------------------------------------------------- CloneLeafTiles
\* if checkpoint.N < head
Regressed(n, head) == n < head

\* remainingChunks := int((checkpoint.N - localLeaves) / tileWidth)
RemainingChunks(n, localLeaves, tileWidth) == GoDiv(n - localLeaves, tileWidth)

\* A clone that starts over from the first tile whatever the store holds.
StartFromScratch(localLeaves, tileWidth) == 0

\* startOffset := int(localLeaves / tileWidth)
StartOffset(localLeaves, tileWidth) == GoDiv(localLeaves, tileWidth)

\* offset := startOffset + i
FetchOffset(startOffset, i) == startOffset + i

\* A chunk that claims to start one leaf after its tile's first leaf.
TileLeavesFromOne(offset, tileWidth, data) ==
    [start |-> offset * tileWidth + 1, data |-> data]

\* A chunk whose leaves are out of order.
TileLeavesRotated(offset, tileWidth, data) ==
    [start |-> offset * tileWidth, data |-> Tail(data) \o <<Head(data)>>]

\* c = tileLeaves{int64(offset) * tileWidth, leaves}
TileLeaves(offset, tileWidth, data) == [start |-> offset * tileWidth, data |-> data]

NoChunk == [start |-> -1, data |-> <<>>]
IdleClone == [head |-> -1, remainingChunks |-> 0, startOffset |-> 0,
              i |-> 0, pc |-> "none", chunk |-> NoChunk]
IdleProducer == [pc |-> "none", i |-> 0, tries |-> 0, c |-> NoChunk]

\* The producer goroutine is not in a fetch: it has ended, or it is parked on
\* a channel send.  The client's next call is taken once it is.
ProducerQuiet == producer.pc # "fetch"

\* CloneLeafTiles(ctx, checkpoint) up to the start of its two loops.
CloneLeafTiles(cp) ==
    /\ phase = "idle"
    /\ ProducerQuiet
    /\ audit = "none"
    /\ LET head            == LocalHead
           localLeaves     == head + 1
           remainingChunks == RemainingChunks(cp.N, localLeaves, TileWidth)
           startOffset     == StartOffset(localLeaves, TileWidth)
           s0              == IF cp = checkpoint /\ streak = 3 THEN 3 ELSE 0
           regressed       == Err("RemoteRegressed", -1, -1, -1)
       IN  /\ checkpoint' = cp
           /\ cancelled' = FALSE
           /\ nFetch' = 0 /\ nWrite' = 0 /\ nSetTile' = 0
           /\ faulted' = FALSE
           /\ exhausted' = -1
           /\ IF Regressed(cp.N, head)
              THEN /\ result' = [Returned("clone", regressed, head, FALSE)
                                    EXCEPT !.rerun = (s0 = 3), !.n = cp.N,
                                           !.retry = RetryOf(cp.N)]
                   /\ phase' = "idle"
                   /\ streak' = 0
                   /\ audit' = AuditAfter("clone", regressed)
                   /\ clone' = IdleClone
                   /\ UNCHANGED producer
              ELSE IF remainingChunks > 0
              THEN /\ phase' = "cloning"
                   /\ clone' = [head |-> head,
                                remainingChunks |-> remainingChunks,
                                startOffset |-> startOffset, i |-> 0,
                                pc |-> "select", chunk |-> NoChunk]
                   /\ producer' = [pc |-> "fetch", i |-> 0, tries |-> 0,
                                   c |-> NoChunk]
                   /\ streak' = s0
                   /\ audit' = AuditAfter("clone", NoErr)
                   /\ UNCHANGED result
              ELSE /\ result' = [Returned("clone", NoErr, head, FALSE)
                                    EXCEPT !.rerun = (s0 = 3), !.n = cp.N,
                                           !.retry = RetryOf(cp.N)]
                   /\ phase' = "idle"
                   /\ streak' = StreakAfter("clone", s0, NoErr)
                   /\ audit' = AuditAfter("clone", NoErr)
                   /\ clone' = IdleClone
                   /\ UNCHANGED producer
    /\ UNCHANGED <<serverlessVars, callVars, height, storeVars, hashVars, nFaults, corrupted>>

\* One call of operation() inside backoff.Retry: FullLeavesAtOffset succeeds,
\* or fails and is retried, or fails and the backoff gives up.
ProducerFetch ==
    /\ producer.pc = "fetch"
    /\ nFetch' = nFetch + 1
    /\ LET offset == FetchOffset(clone.startOffset, producer.i)
       IN  \/ /\ producer' = [producer EXCEPT
                     !.pc = "sendLeaf",
                     !.c = TileLeaves(offset, TileWidth,
                                      FullLeavesAtOffset(height, offset))]
              /\ UNCHANGED <<exhausted, nFaults>>
           \/ /\ producer.tries < MaxRetries
              /\ producer' = [producer EXCEPT !.tries = @ + 1]
              /\ UNCHANGED <<exhausted, nFaults>>
           \/ /\ MayFault
              /\ producer' = [producer EXCEPT !.pc = "sendErr"]
              /\ exhausted' = IF exhausted = -1 THEN producer.i ELSE exhausted
              /\ nFaults' = nFaults + 1
    /\ UNCHANGED <<serverlessVars, callVars, height, storeVars, checkpoint, phase, result, clone,
                   cancelled, hashVars, nWrite, nSetTile, faulted, streak,
                   corrupted, audit>>

\* The producer's next loop iteration after a send.
ProducerAfterSend(p, remainingChunks) ==
    IF p.i + 1 < remainingChunks
    THEN [pc |-> "fetch", i |-> p.i + 1, tries |-> 0, c |-> NoChunk]
    ELSE [pc |-> "done", i |-> p.i + 1, tries |-> 0, c |-> NoChunk]

\* leafChan <- c meets case chunk := <-leafChan.
SendLeaf ==
    /\ phase = "cloning" /\ clone.pc = "select"
    /\ producer.pc = "sendLeaf"
    /\ clone' = [clone EXCEPT !.pc = "write", !.chunk = producer.c]
    /\ producer' = ProducerAfterSend(producer, clone.remainingChunks)
    /\ UNCHANGED <<serverlessVars, callVars, height, storeVars, checkpoint, phase, result, cancelled,
                   hashVars, nFetch, nWrite, nSetTile, faulted, exhausted,
                   streak, nFaults, corrupted, audit>>

\* A consumer that drops the error it receives and goes on with its loop.
SendErrDropped ==
    /\ phase = "cloning" /\ clone.pc = "select"
    /\ producer.pc = "sendErr"
    /\ producer' = ProducerAfterSend(producer, clone.remainingChunks)
    /\ IF clone.i + 1 < clone.remainingChunks
       THEN /\ clone' = [clone EXCEPT !.i = @ + 1]
            /\ UNCHANGED <<phase, result, streak, audit>>
       ELSE /\ clone' = [clone EXCEPT !.i = @ + 1, !.pc = "none"]
            /\ phase' = "idle"
            /\ result' = Returned("clone", NoErr, clone.head, faulted)
            /\ streak' = StreakAfter("clone", streak, NoErr)
            /\ audit' = AuditAfter("clone", NoErr)
    /\ UNCHANGED <<serverlessVars, callVars, height, storeVars, checkpoint, cancelled, hashVars, nFetch,
                   nWrite, nSetTile, faulted, exhausted, nFaults, corrupted>>

\* errChan <- err meets case err := <-errChan: CloneLeafTiles returns err.
SendErr ==
    /\ phase = "cloning" /\ clone.pc = "select"
    /\ producer.pc = "sendErr"
    /\ LET e == Err("Fetch", -1, FetchOffset(clone.startOffset, producer.i), -1)
       IN  /\ result' = Returned("clone", e, clone.head, TRUE)
           /\ audit' = AuditAfter("clone", e)
    /\ phase' = "idle"
    /\ clone' = [clone EXCEPT !.pc = "none"]
    /\ producer' = ProducerAfterSend(producer, clone.remainingChunks)
    /\ faulted' = TRUE
    /\ streak' = 0
    /\ UNCHANGED <<serverlessVars, callVars, height, storeVars, checkpoint, cancelled, hashVars, nFetch,
                   nWrite, nSetTile, exhausted, nFaults, corrupted>>

\* s.localDB.WriteLeaves(ctx, start, leaves) and the end of the iteration.
WriteChunk ==
    /\ phase = "cloning" /\ clone.pc = "write"
    /\ nWrite' = nWrite + 1
    /\ \E storeFault \in BOOLEAN :
         /\ storeFault => MayFault
         /\ nFaults' = IF storeFault THEN nFaults + 1 ELSE nFaults
         /\ IF WriteLeavesOk(clone.chunk.start) /\ ~storeFault
            THEN /\ leaves' = leaves \o clone.chunk.data
                 /\ UNCHANGED faulted
                 /\ IF clone.i + 1 < clone.remainingChunks
                    THEN /\ clone' = [clone EXCEPT !.i = @ + 1, !.pc = "select",
                                                   !.chunk = NoChunk]
                         /\ UNCHANGED <<phase, result, streak, audit>>
                    ELSE /\ clone' = [clone EXCEPT !.i = @ + 1, !.pc = "none",
                                                   !.chunk = NoChunk]
                         /\ phase' = "idle"
                         /\ result' = Returned("clone", NoErr, clone.head, faulted)
                         /\ streak' = StreakAfter("clone", streak, NoErr)
                         /\ audit' = AuditAfter("clone", NoErr)
            ELSE /\ UNCHANGED leaves
                 /\ faulted' = (storeFault \/ cancelled)
                 /\ clone' = [clone EXCEPT !.pc = "none", !.chunk = NoChunk]
                 /\ phase' = "idle"
                 /\ result' = Returned("clone", Err("WriteLeaves", -1, -1, -1),
                                       clone.head, storeFault \/ cancelled)
                 /\ streak' = 0
                 /\ audit' = AuditAfter("clone", Err("WriteLeaves", -1, -1, -1))
    /\ UNCHANGED <<serverlessVars, callVars, height, tiles, checkpoint, producer, cancelled, hashVars,
                   nFetch, nSetTile, exhausted, corrupted>>

\* The owner of the run cancels its context.
Cancel ==
    /\ phase = "cloning"
    /\ ~cancelled
    /\ cancelled' = TRUE
    /\ UNCHANGED <<serverlessVars, callVars, height, storeVars, checkpoint, phase, result, clone,
                   producer, hashVars, nFetch, nWrite, nSetTile, faulted,
                   exhausted, streak, nFaults, corrupted, audit>>

\* -------------------------------------------------------------- HashTiles
\* A level's goroutine whose loop starts at offset := 1.
NewTaskFromOne(tileCount, tileWidth) ==
    [pc |-> IF tileCount > 1 THEN "loop" ELSE "done",
     tileCount |-> tileCount, offset |-> 1, i |-> 0, found |-> FALSE,
     db |-> <<>>, inHashes |-> [j \in 1..tileWidth |-> <<>>],
     cr |-> NewEmptyRange(0)]

\* The state of one level's goroutine (hashLeafLevel or hashUpperLevel).
NewTask(tileCount, tileWidth) ==
    [pc |-> IF tileCount > 0 THEN "loop" ELSE "done",
     tileCount |-> tileCount, offset |-> 0, i |-> 0, found |-> FALSE,
     db |-> <<>>, inHashes |-> [j \in 1..tileWidth |-> <<>>],
     cr |-> NewEmptyRange(0)]

\* tileCount of level l: checkpoint.N / tileWidth, then /= tileWidth per level.
RECURSIVE LevelTiles(_, _, _)
LevelTiles(n, tileWidth, l) ==
    IF l = 0 THEN n \div tileWidth
    ELSE LevelTiles(n, tileWidth, l - 1) \div tileWidth

\* The levels HashTiles starts a goroutine for: 0, and 1..getLevelsForLeafCount.
HashLevels(h, n) ==
    LET k == GetLevelsForLeafCount(h, n) IN 0..(IF k < 0 THEN 0 ELSE k)

\* Channels without a buffer: make(chan *compact.Range).
ChanUnbuffered(tileWidth) == 0

\* make(chan *compact.Range, tileWidth)
ChanCap(tileWidth) == tileWidth

\* HashTiles(ctx, checkpoint): the goroutines are started; g.Wait() follows.
HashTiles ==
    /\ phase = "idle"
    /\ ProducerQuiet
    /\ streak >= 1
    /\ audit \in {"none", "tampered"}
    /\ phase' = "hashing"
    /\ tasks' = [l \in HashLevels(height, checkpoint.N) |->
                    NewTask(LevelTiles(checkpoint.N, TileWidth, l), TileWidth)]
    /\ chans' = [l \in HashLevels(height, checkpoint.N) |-> <<>>]
    /\ groupErr' = NoErr
    /\ nFetch' = 0 /\ nWrite' = 0 /\ nSetTile' = 0
    /\ faulted' = FALSE
    /\ exhausted' = -1
    /\ UNCHANGED <<serverlessVars, callVars, height, storeVars, checkpoint, result, clone, producer,
                   cancelled, streak, nFaults, corrupted, audit>>

\* A level's goroutine returns the error e; the errgroup keeps the first.
TaskFails(l, e) ==
    /\ tasks' = [tasks EXCEPT ![l].pc = "err"]
    /\ groupErr' = IF groupErr = NoErr THEN e ELSE groupErr

\* The hashes of a tile appended to an empty compact range begun at begin.
TileRange(begin, hashes) == AppendAll(NewEmptyRange(begin), hashes)

\* hashLeafTile(offset): the record hashes of the tile's leaves.
LeafTileHashes(h, offset) ==
    [j \in 1..Pow2(h) |-> RecordHash(leaves[Pow2(h) * offset + j])]

\* hashLeafLevel: the hashes of the tile at offset, the stored ones when the
\* tile is found.
LeafLevelHashes(ts, h, offset) ==
    IF TilePresent(ts, 0, offset) THEN ts[<<0, offset>>]
    ELSE LeafTileHashes(h, offset)

\* hashLeafLevel: one iteration of the loop, up to the send of its root.
LeafTile ==
    /\ phase = "hashing"
    /\ tasks[0].pc = "loop"
    /\ LET offset  == tasks[0].offset
           present == TilePresent(tiles, 0, offset)
           canHash == LeavesPresent(TileWidth * offset, TileWidth)
       IN  \E fault \in {"none", "read", "write"},
              hashes \in {IF present \/ canHash
                          THEN LeafLevelHashes(tiles, height, offset)
                          ELSE <<>>} :
           \E cr \in {TileRange(offset * TileWidth, hashes)} :
             /\ fault # "none" => MayFault
             /\ nFaults' = IF fault # "none" THEN nFaults + 1 ELSE nFaults
             /\ CASE fault = "read" ->
                    /\ TaskFails(0, Err("StoreFault", 0, offset, -1))
                    /\ faulted' = TRUE
                    /\ UNCHANGED <<tiles, nSetTile>>
               [] fault = "write" ->
                    /\ ~present /\ canHash
                    /\ TaskFails(0, Err("StoreFault", 0, offset, -1))
                    /\ faulted' = TRUE
                    /\ nSetTile' = nSetTile + 1
                    /\ UNCHANGED tiles
               [] OTHER ->
                    IF ~present /\ ~canHash
                    THEN /\ TaskFails(0, Err("Leaves", 0, offset, -1))
                         /\ UNCHANGED <<tiles, nSetTile, faulted>>
                    ELSE /\ IF present
                            THEN UNCHANGED <<tiles, nSetTile>>
                            ELSE /\ tiles' = SetTile(tiles, 0, offset, hashes)
                                 /\ nSetTile' = nSetTile + 1
                         /\ IF Len(cr.hashes) # 1
                            THEN TaskFails(0, Err("SingleRoot", 0, offset, -1))
                            ELSE /\ tasks' = [tasks EXCEPT ![0].pc = "send",
                                                           ![0].cr = cr]
                                 /\ UNCHANGED groupErr
                         /\ UNCHANGED faulted
    /\ UNCHANGED <<serverlessVars, callVars, height, leaves, checkpoint, phase, result, cloneVars, chans,
                   nWrite, streak, corrupted, audit>>

\* roots <- cr (out <- cr): the send blocks while the channel is full.
SendRoot(l) ==
    /\ phase = "hashing"
    /\ l \in DOMAIN tasks
    /\ tasks[l].pc = "send"
    /\ Len(chans[l]) < ChanCap(TileWidth)
    /\ chans' = [chans EXCEPT ![l] = Append(@, tasks[l].cr)]
    /\ tasks' = [tasks EXCEPT
            ![l].offset = @ + 1,
            ![l].pc = IF tasks[l].offset + 1 < tasks[l].tileCount
                      THEN "loop" ELSE "done"]
    /\ UNCHANGED <<serverlessVars, callVars, height, storeVars, checkpoint, phase, result, cloneVars,
                   groupErr, nWrite, nSetTile, faulted, streak, nFaults,
                   corrupted, audit>>

\* hashUpperLevel: the top of one iteration, s.localDB.Tile(height, level, offset).
UpperTile(l) ==
    /\ phase = "hashing"
    /\ l \in DOMAIN tasks /\ l >= 1
    /\ tasks[l].pc = "loop"
    /\ LET offset  == tasks[l].offset
           present == TilePresent(tiles, l, offset)
       IN  \E fault \in BOOLEAN :
             /\ fault => MayFault
             /\ nFaults' = IF fault THEN nFaults + 1 ELSE nFaults
             /\ IF fault
                THEN /\ TaskFails(l, Err("StoreFault", l, offset, -1))
                     /\ faulted' = TRUE
                ELSE /\ tasks' = [tasks EXCEPT
                           ![l].pc = "recv", ![l].i = 0, ![l].found = present,
                           ![l].db = IF present THEN tiles[<<l, offset>>]
                                     ELSE <<>>]
                     /\ UNCHANGED <<groupErr, faulted>>
    /\ UNCHANGED <<serverlessVars, callVars, height, storeVars, checkpoint, phase, result, cloneVars,
                   chans, nWrite, nSetTile, streak, corrupted, audit>>

\* A comparison that rejects every stored tile.
DiffersWhenFound(found, db, inHashes, i) == found

\* found && !bytes.Equal(dbTileHashes[i], inHashes[i])
Differs(found, db, inHashes, i) == found /\ db[i] # inHashes[i]

\* A SetTile that is called whether or not the tile was found.
AlwaysSetTile(found) == TRUE

\* if !found { s.localDB.SetTile(s.height, level, offset, tileHashBlob) }
MustSetTile(found) == ~found

\* A received root put in the slots of the tile from the last one down.
PutHashFromEnd(inHashes, i, hash) ==
    [inHashes EXCEPT ![Len(inHashes) - i] = hash]

\* inHashes[i] = cr.Hashes()[0]
PutHash(inHashes, i, hash) == [inHashes EXCEPT ![i + 1] = hash]

\* hashUpperLevel: cr := <-in and the rest of the inner loop's iteration; after
\* the last slot of the tile, the SetTile and the tile's own root.
UpperRecv(l) ==
    /\ phase = "hashing"
    /\ l \in DOMAIN tasks /\ l >= 1
    /\ tasks[l].pc = "recv"
    /\ chans[l - 1] # <<>>
    /\ chans' = [chans EXCEPT ![l - 1] = Tail(@)]
    /\ LET t        == tasks[l]
           inHash   == Head(chans[l - 1]).hashes[1]
           inHashes == PutHash(t.inHashes, t.i, inHash)
           cr       == TileRange(t.offset * TileWidth, inHashes)
       IN  IF Differs(t.found, t.db, inHashes, t.i + 1)
           THEN /\ TaskFails(l, Err("HashMismatch", l, t.offset, t.i))
                /\ UNCHANGED <<tiles, nSetTile, faulted, nFaults>>
           ELSE IF t.i + 1 < TileWidth
           THEN /\ tasks' = [tasks EXCEPT ![l].i = @ + 1,
                                          ![l].inHashes = inHashes]
                /\ UNCHANGED <<tiles, nSetTile, faulted, groupErr, nFaults>>
           ELSE \E fault \in BOOLEAN :
                  /\ fault => MayFault
                  /\ nFaults' = IF fault THEN nFaults + 1 ELSE nFaults
                  /\ IF fault
                     THEN /\ MustSetTile(t.found)
                          /\ TaskFails(l, Err("StoreFault", l, t.offset, -1))
                          /\ nSetTile' = nSetTile + 1
                          /\ faulted' = TRUE
                          /\ UNCHANGED tiles
                     ELSE /\ IF MustSetTile(t.found)
                             THEN /\ tiles' = SetTile(tiles, l, t.offset, inHashes)
                                  /\ nSetTile' = nSetTile + 1
                             ELSE UNCHANGED <<tiles, nSetTile>>
                          /\ IF Len(cr.hashes) # 1
                             THEN TaskFails(l, Err("SingleRoot", l, t.offset, -1))
                             ELSE /\ tasks' = [tasks EXCEPT
                                        ![l].pc = "send", ![l].i = @ + 1,
                                        ![l].inHashes = inHashes, ![l].cr = cr]
                                  /\ UNCHANGED groupErr
                          /\ UNCHANGED faulted
    /\ UNCHANGED <<serverlessVars, callVars, height, leaves, checkpoint, phase, result, cloneVars,
                   nWrite, streak, corrupted, audit>>

\* A level's goroutine has returned.
Finished(l) == tasks[l].pc \in {"done", "err"}

\* g.Wait() returns once every goroutine has returned; HashTiles returns the
\* group's first error.
HashReturn ==
    /\ phase = "hashing"
    /\ \A l \in DOMAIN tasks : Finished(l)
    /\ phase' = "idle"
    /\ result' = Returned("hash", groupErr, -1, faulted)
    /\ streak' = StreakAfter("hash", streak, groupErr)
    /\ audit' = AuditAfter("hash", groupErr)
    /\ tasks' = <<>> /\ chans' = <<>> /\ groupErr' = NoErr
    /\ UNCHANGED <<serverlessVars, callVars, height, storeVars, checkpoint, cloneVars, nWrite, nSetTile,
                   faulted, nFaults, corrupted>>

\* ---------------------------------------------------------- CheckRootHash
\* The leaves under one slot of a tile, taken for those under the tile.
SlotLeafCount(h, level) == Pow2(level * h)

\* tileLeafCount := uint64(1) << ((level + 1) * s.height)
TileLeafCount(h, level) == Pow2((level + 1) * h)

\* levelTileCount := int(uint64(checkpoint.N) / tileLeafCount)
LevelTileCount(h, n, level) == n \div TileLeafCount(h, level)

\* An offset loop that starts every level at its first tile.
FirstTileOfLevel(h, end, level) == 0

\* firstTileOffset := int(logRange.End() / tileLeafCount)
FirstTileOffset(h, end, level) == end \div TileLeafCount(h, level)

\* The body of the offset loop: the tile becomes a range of tileLeafCount
\* leaves, appended to the running log range.
CheckTile(h, ts, level, offset, logRange, tileFault) ==
    IF tileFault
    THEN [err |-> Err("StoreFault", level, offset, -1), range |-> logRange]
    ELSE IF ~TilePresent(ts, level, offset)
    THEN [err |-> Err("TileMissing", level, offset, -1), range |-> logRange]
    ELSE The({IF ~treeRange.ok
              THEN [err |-> Err("NewRange", level, offset, -1),
                    range |-> logRange]
              ELSE [err |-> NoErr,
                    range |-> AppendRange(logRange, treeRange.range)] :
              treeRange \in
                {NewRange(offset * TileLeafCount(h, level),
                          (offset + 1) * TileLeafCount(h, level),
                          TileRange(0, ts[<<level, offset>>]).hashes)}})

\* for offset := firstTileOffset; offset < levelTileCount; offset++
RECURSIVE CheckOffsets(_, _, _, _, _, _, _)
CheckOffsets(h, ts, n, level, offset, logRange, tileFault) ==
    IF offset >= LevelTileCount(h, n, level)
    THEN [err |-> NoErr, range |-> logRange]
    ELSE The({IF r.err # NoErr THEN r
              ELSE CheckOffsets(h, ts, n, level, offset + 1, r.range, tileFault) :
              r \in {CheckTile(h, ts, level, offset, logRange, tileFault)}})

\* for level := s.getLevelsForLeafCount(checkpoint.N); level >= 0; level--
RECURSIVE CheckLevels(_, _, _, _, _, _)
CheckLevels(h, ts, n, level, logRange, tileFault) ==
    IF level < 0 THEN [err |-> NoErr, range |-> logRange]
    ELSE The({IF r.err # NoErr THEN r
              ELSE CheckLevels(h, ts, n, level - 1, r.range, tileFault) :
              r \in {CheckOffsets(h, ts, n, level,
                                  FirstTileOffset(h, logRange.end, level),
                                  logRange, tileFault)}})

\* A straggler count that takes every leaf of the tree for a straggler.
WholeTreeCount(n, end) == n

\* stragglersCount := int(uint64(checkpoint.N) - logRange.End())
StragglersCount(n, end) == n - end

\* stragglerTileOffset := int(checkpoint.N / (1 << s.height))
StragglerTileOffset(h, n) == n \div Pow2(h)

\* The record hashes of the stragglers.
StragglerHashes(stragglers) ==
    [j \in 1..Len(stragglers) |-> RecordHash(stragglers[j])]

\* The end of CheckRootHash: the stragglers are appended to the log range
\* of the tiles and the root is compared with the checkpoint's.
CheckStragglers(h, cp, tilesRange, remoteFault) ==
    IF remoteFault THEN Err("Stragglers", -1, -1, -1)
    ELSE The({IF logRange.end # cp.N
              THEN Err("Calculation", -1, -1, -1)
              ELSE The({IF ~root.ok THEN Err("GetRootHash", -1, -1, -1)
                        ELSE IF CopyHash(root.root) # cp.Hash
                        THEN Err("RootMismatch", -1, -1, -1)
                        ELSE NoErr :
                        root \in {GetRootHash(logRange)}}) :
              logRange \in
                {AppendAll(tilesRange,
                    StragglerHashes(PartialLeavesAtOffset(h,
                        StragglerTileOffset(h, cp.N),
                        StragglersCount(cp.N, tilesRange.end))))}})

\* CheckRootHash(ctx, checkpoint) on the tiles ts: the error it returns.
\* tileFault: the store fails the first tile read; remoteFault: the remote
\* fails PartialLeavesAtOffset.
CheckRootHash(h, ts, cp, tileFault, remoteFault) ==
    The({IF r.err # NoErr THEN r.err
         ELSE CheckStragglers(h, cp, r.range, remoteFault) :
         r \in {CheckLevels(h, ts, cp.N, GetLevelsForLeafCount(h, cp.N),
                            NewEmptyRange(0), tileFault)}})

\* CheckRootHash got past its tile loops, to s.sumDB.PartialLeavesAtOffset:
\* the error it returns, if any, is none of the loops'.
StragglersRequested(e) == e.kind \notin {"StoreFault", "TileMissing", "NewRange"}

\* The client's call of CheckRootHash on the run's checkpoint.
RootCheck ==
    /\ phase = "idle"
    /\ ProducerQuiet
    /\ streak >= 2
    /\ audit \in {"none", "rehashed"}
    /\ \E tileFault, remoteFault \in BOOLEAN :
         \E e \in {CheckRootHash(height, tiles, checkpoint, tileFault, remoteFault)} :
         LET f == e.kind \in {"StoreFault", "Stragglers"}
         IN  /\ (tileFault \/ remoteFault) => (MayFault /\ f)
             /\ ~(tileFault /\ remoteFault)
             /\ nFaults' = IF f THEN nFaults + 1 ELSE nFaults
             /\ faulted' = f
             /\ result' = Returned("check", e, -1, f)
             /\ streak' = StreakAfter("check", streak, e)
             /\ audit' = AuditAfter("check", e)
             /\ nFetch' = IF StragglersRequested(e) THEN 1 ELSE 0
    /\ nWrite' = 0 /\ nSetTile' = 0
    /\ exhausted' = -1
    /\ UNCHANGED <<serverlessVars, callVars, height, storeVars, checkpoint, phase, clone, producer,
                   cancelled, hashVars, corrupted>>

\* ------------------------------------------------------------- corruption
\* The clone and the hash of the run's checkpoint have succeeded, and the
\* last call of the client was one of HashTiles and CheckRootHash.
AuditedStore ==
    /\ streak >= 2
    /\ result.op \in {"hash", "check"}
    /\ result.err = NoErr

\* The content of one stored leaf changes behind the Service's back.
CorruptLeaf ==
    /\ phase = "idle"
    /\ ProducerQuiet
    /\ AuditedStore
    /\ corrupted < MaxCorrupt
    /\ \E i \in 1..Len(leaves) :
         leaves' = [leaves EXCEPT ![i] = 0]
    /\ corrupted' = corrupted + 1
    /\ audit' = "tampered"
    /\ UNCHANGED <<serverlessVars, callVars, height, tiles, checkpoint, phase, result, cloneVars,
                   hashVars, nWrite, nSetTile, faulted, streak, nFaults>>

\* One slot of one stored tile changes behind the Service's back.
CorruptTile ==
    /\ phase = "idle"
    /\ ProducerQuiet
    /\ AuditedStore
    /\ corrupted < MaxCorrupt
    /\ \E c \in DOMAIN tiles : \E j \in 1..TileWidth :
         tiles' = [tiles EXCEPT ![c] = [@ EXCEPT ![j] = BadHash]]
    /\ corrupted' = corrupted + 1
    /\ audit' = "tampered"
    /\ UNCHANGED <<serverlessVars, callVars, height, leaves, checkpoint, phase, result, cloneVars,
                   hashVars, nWrite, nSetTile, faulted, streak, nFaults>>

\* ============================================================ serverless
\* ------------------------------------------------- api.Tile and its codec
\* A byte slice is a sequence of 0..255; the nil slice is the empty one.
\* byte(x) of an unsigned x.
ToByte(x) == x % 256

\* The zero api.Tile.
ZeroTile == [NumLeaves |-> 0, Nodes |-> <<>>]

\* b.Write(n) for every n of nodes[lo..hi], in order: the bytes written.
RECURSIVE WriteNodes(_, _, _)
WriteNodes(nodes, lo, hi) ==
    IF lo > hi THEN <<>>
    ELSE IF lo = hi THEN nodes[lo]
    ELSE The({WriteNodes(nodes, lo, m) \o WriteNodes(nodes, m + 1, hi) :
                m \in {(lo + hi) \div 2}})

\* func (t Tile) MarshalBinary() ([]byte, error): the bytes (the error is
\* always nil).
MarshalBinary(t) ==
    <<HashSize, ToByte(t.NumLeaves)>> \o WriteNodes(t.Nodes, 1, Len(t.Nodes))

\* The read loop of UnmarshalBinary over the bytes after the two header
\* bytes: iteration k reads hs bytes at payload offset hs * (k - 1); it stops
\* with io.EOF when none is left, and a last read of fewer than hs bytes is
\* the short-read error.
ShortRead(payload, hs) == Len(payload) % hs # 0

ReadNodes(payload, hs) ==
    [k \in 1..(Len(payload) \div hs) |->
        SubSeq(payload, hs * (k - 1) + 1, hs * k)]

\* func (t *Tile) UnmarshalBinary(raw []byte) error: the error and the
\* receiver afterwards.
UnmarshalBinary(t, in) ==
    IF Len(in) < 1 THEN [err |-> "unable to read hashsize", t |-> t]
    ELSE IF in[1] # HashSize THEN [err |-> "invalid hash size", t |-> t]
    ELSE IF Len(in) < 2 THEN [err |-> "unable to read numLeaves", t |-> t]
    ELSE IF ShortRead(SubSeq(in, 3, Len(in)), in[1])
         THEN [err |-> "short read", t |-> t]
    ELSE [err |-> "nil",
          t   |-> [NumLeaves |-> in[2],
                   Nodes |-> ReadNodes(SubSeq(in, 3, Len(in)), in[1])]]

\* No codec call has returned.
NoCall == [op |-> "none", err |-> "nil", src |-> ZeroTile, before |-> ZeroTile,
           in |-> <<>>]

\* ------------------------------------------------------- tile addressing
\* A key that shifts the index by the level only: 1<<level*index + 1<<level - 1.
TileNodeKeyByLevel(level, index) == (Pow2(level) * index + Pow2(level)) - 1

\* func TileNodeKey(level uint, index uint64) uint; << and * bind alike and
\* tighter than + and -.
TileNodeKey(level, index) == (Pow2(level + 1) * index + Pow2(level)) - 1

\* An address that takes every row of a tile to be 2^8 wide.
NodeCoordsToLeafRow(treeLevel, treeIndex) ==
    <<treeLevel \div TileHeight, treeIndex \div Pow2(TileHeight),
      treeLevel % TileHeight, treeIndex % Pow2(TileHeight)>>

\* func NodeCoordsToTileAddress(treeLevel, treeIndex uint64):
\* <<tileLevel, tileIndex, nodeLevel, nodeIndex>>.
NodeCoordsToTileAddress(treeLevel, treeIndex) ==
    LET tileRowWidth == Pow2(TileHeight - (treeLevel % TileHeight))
    IN  <<treeLevel \div TileHeight, treeIndex \div tileRowWidth,
          treeLevel % TileHeight, treeIndex % tileRowWidth>>

\* ----------------------------------------------------------------- TileSize
\* for i := uint64(0); i < 256; i++: an index beyond the end of t.Nodes
\* panics, a nil node ends the count.
\* The loop leaves its body at i: the index is out of range, or the node nil.
TileSizeStops(t, i) ==
    \/ TileNodeKey(0, i) >= Len(t.Nodes)
    \/ t.Nodes[TileNodeKey(0, i) + 1] = <<>>

\* func TileSize(t *api.Tile) uint64: the first i the loop stops at, if any.
TileSize(t) ==
    IF \A i \in 0..(MaxTileSize - 1) : ~TileSizeStops(t, i)
    THEN [panic |-> FALSE, size |-> MaxTileSize]
    ELSE LET first == CHOOSE i \in 0..(MaxTileSize - 1) :
                          /\ TileSizeStops(t, i)
                          /\ \A j \in 0..(i - 1) : ~TileSizeStops(t, j)
         IN  IF TileNodeKey(0, first) >= Len(t.Nodes)
             THEN [panic |-> TRUE, size |-> 0]
             ELSE [panic |-> FALSE, size |-> first]

\* No node has been located, no tile is being keyed.
NoCoords == [treeLevel |-> 0, treeIndex |-> 0, addr |-> <<>>]
NoKeys == [H |-> 0, keys |-> <<>>, walk |-> <<>>]

\* No getLevelsForLeafCount, ProcessMetadata or TileSize call has been made.
NoLevels == [h |-> 0, n |-> 0, out |-> <<>>]
NoMeta == [op |-> "none", err |-> NoErr, panic |-> FALSE, calls |-> <<>>]
NoSize == [op |-> "none", panic |-> FALSE, size |-> 0, t |-> ZeroTile]

\* ---------------------------------------------------------------- getTORKey
\* The names getTORKey is called with: none, and the paths of two files.
FileNames == {"", "a", "b"}
KeyFiles == FileNames \ {""}

\* A path with no file, and the file holding data.
NoFile == [state |-> "absent", data |-> <<>>]
FileOf(data) == [state |-> "file", data |-> data]

\* kp, err := ed25519.GenerateKey(rand.Reader); kp.PrivateKey(): the bytes
\* of the k-th key the random source yields, no two alike.
NewKey(k) == [j \in 1..KeyLength |-> k]

\* torKey.KeyPair(): the pair of the private key bytes and the public key
\* they determine.
KeyPair(torKey) == [private |-> torKey, public |-> <<"public", torKey>>]

\* The nil crypto.PrivateKey.
NoTorKey == [private |-> <<>>, public |-> <<>>]

\* ioutil.ReadFile(f): the data, os.ErrNotExist, or another error.
ReadFile(fs, f, readFault) ==
    IF readFault THEN [err |-> "other", data |-> <<>>]
    ELSE IF fs[f].state = "absent" THEN [err |-> "notexist", data |-> <<>>]
    ELSE [err |-> "nil", data |-> fs[f].data]

\* ioutil.WriteFile(f, data, 0600): the file is created or truncated and
\* written bytes of data are in it when the call returns; the call fails
\* unless all are.  written = -1: the file could not be opened.
WriteFile(fs, f, data, written) ==
    IF written < 0 THEN [err |-> TRUE, fs |-> fs]
    ELSE [err |-> written < Len(data),
          fs |-> [g \in DOMAIN fs |->
                    IF g = f THEN FileOf(SubSeq(data, 1, written))
                    ELSE fs[g]]]

\* A test that takes every read error for a missing file.
IsAnyError(err) == TRUE

\* errors.Is(err, os.ErrNotExist)
IsNotExist(err) == err = "notexist"

\* func getTORKey(f string) (crypto.PrivateKey, error), on the files fs, the
\* random source having yielded generated keys so far.
GetTORKeyResult(fs, generated, f, readFault, genFault, written) ==
    IF f = ""
    THEN [key |-> NoTorKey, err |-> "nil", fs |-> fs, generated |-> generated]
    ELSE The({
      IF rd.err # "nil"
      THEN IF ~IsNotExist(rd.err)
           THEN [key |-> NoTorKey, err |-> "read", fs |-> fs,
                 generated |-> generated]
           ELSE IF genFault
           THEN [key |-> NoTorKey, err |-> "generate", fs |-> fs,
                 generated |-> generated]
           ELSE The({IF w.err
                     THEN [key |-> NoTorKey, err |-> "write", fs |-> w.fs,
                           generated |-> generated + 1]
                     ELSE [key |-> KeyPair(NewKey(generated + 1)),
                           err |-> "nil", fs |-> w.fs,
                           generated |-> generated + 1] :
                     w \in {WriteFile(fs, f, NewKey(generated + 1), written)}})
      ELSE [key |-> KeyPair(rd.data), err |-> "nil", fs |-> fs,
            generated |-> generated] :
      rd \in {ReadFile(fs, f, readFault)}})

\* No getTORKey call has been made and no key file exists.
NoTor == [fs |-> [g \in KeyFiles |-> NoFile], generated |-> 0, calls |-> <<>>]

CallsIdle ==
    /\ levels = NoLevels
    /\ meta = NoMeta
    /\ sized = NoSize
    /\ tor = NoTor

ServerlessIdle ==
    /\ tile = ZeroTile
    /\ raw = <<>>
    /\ codec = NoCall
    /\ coords = NoCoords
    /\ keyed = NoKeys

\* ------------------------------------------------------------------ specs
\* The auditor after construction, its height apart.
InitService ==
    /\ leaves = <<>>
    /\ tiles = NoTiles
    /\ checkpoint = [N |-> 0, Hash |-> EmptyTreeHash]
    /\ phase = "idle"
    /\ result = [op |-> "none", err |-> NoErr, head |-> -1, rerun |-> FALSE,
                 faulted |-> FALSE, n |-> 0, retry |-> FALSE]
    /\ clone = IdleClone
    /\ producer = IdleProducer
    /\ cancelled = FALSE
    /\ tasks = <<>>
    /\ chans = <<>>
    /\ groupErr = NoErr
    /\ nFetch = 0 /\ nWrite = 0 /\ nSetTile = 0
    /\ faulted = FALSE
    /\ exhausted = -1
    /\ streak = 0
    /\ nFaults = 0
    /\ corrupted = 0
    /\ audit = "none"

Init ==
    /\ height \in 1..MaxHeight
    /\ InitService
    /\ ServerlessIdle
    /\ CallsIdle

\* No level above this one exists for any checkpoint and height drawn.
MaxLevels == GetLevelsForLeafCount(1, MaxTree)

CloneStart == \E cp \in Checkpoints : CloneLeafTiles(cp)

Next ==
    \/ CloneStart
    \/ ProducerFetch
    \/ SendLeaf
    \/ SendErr
    \/ WriteChunk
    \/ Cancel
    \/ HashTiles
    \/ LeafTile
    \/ \E l \in 0..MaxLevels : SendRoot(l)
    \/ \E l \in 1..MaxLevels : UpperTile(l)
    \/ \E l \in 1..MaxLevels : UpperRecv(l)
    \/ HashReturn
    \/ RootCheck

Spec == Init /\ [][Next]_vars

\* The same program with a store that is corrupted behind its back.
NextCorrupt ==
    \/ Next
    \/ CorruptLeaf
    \/ CorruptTile

SpecCorrupt == Init /\ [][NextCorrupt]_vars

\* ------------------------------------------- the root check on its own
\* The tile (level, offset) of a correct store: slot j holds the Merkle root
\* of the 2^(level*h) remote leaves that start at
\* (offset * 2^h + j) * 2^(level*h).
TrueTile(h, level, offset) ==
    [j \in 1..Pow2(h) |->
        MerkleRoot((offset * Pow2(h) + j - 1) * Pow2(level * h),
                   Pow2(level * h))]

\* The store that holds every tile (k, o) with o < n \div 2^((k+1)*h).
TrueTiles(h, n) ==
    LET cs == {c \in (0..(Len64(n) \div h)) \X (0..n) :
                 c[2] < n \div Pow2((c[1] + 1) * h)}
    IN  [c \in cs |-> TrueTile(h, c[1], c[2])]

\* The root hashes a checkpoint of treeSize n is drawn with: the true one,
\* those of the neighbouring sizes, and two that are no tree's.
RootHashes(n) == {TreeHash(n - 1), TreeHash(n), TreeHash(n + 1), ZeroHash, BadHash}

\* A store cloned and hashed up to a checkpoint of any treeSize >= 1, the
\* checkpoint's root hash right or wrong.
InitRoot ==
    /\ height \in 1..MaxHeight
    /\ \E n \in 1..MaxRootTree :
         /\ checkpoint \in {[N |-> n, Hash |-> x] : x \in RootHashes(n)}
         /\ leaves = [i \in 1..((n \div Pow2(height)) * Pow2(height)) |->
                         RemoteLeaf(i - 1)]
         /\ tiles = TrueTiles(height, n)
    /\ phase = "idle"
    /\ result = [op |-> "hash", err |-> NoErr, head |-> -1, rerun |-> FALSE,
                 faulted |-> FALSE, n |-> checkpoint.N, retry |-> FALSE]
    /\ clone = IdleClone
    /\ producer = IdleProducer
    /\ cancelled = FALSE
    /\ tasks = <<>>
    /\ chans = <<>>
    /\ groupErr = NoErr
    /\ nFetch = 0 /\ nWrite = 0 /\ nSetTile = 0
    /\ faulted = FALSE
    /\ exhausted = -1
    /\ streak = 2
    /\ nFaults = 0
    /\ corrupted = 0
    /\ audit = "none"
    /\ ServerlessIdle
    /\ CallsIdle

SpecRoot == InitRoot /\ [][RootCheck]_vars

\* --------------------------------------------------- HashTiles on its own
\* A store cloned up to a checkpoint of any treeSize, hashed before up to a
\* smaller tree, half the size or the same, or not at all; no store
\* operation fails.
InitHash ==
    /\ height \in 1..MaxHeight
    /\ \E n \in 0..MaxHashTree :
         /\ checkpoint = [N |-> n, Hash |-> TreeHash(n)]
         /\ leaves = [i \in 1..((n \div Pow2(height)) * Pow2(height)) |->
                         RemoteLeaf(i - 1)]
         /\ tiles \in {TrueTiles(height, m) : m \in {0, n \div 2, n}}
    /\ phase = "idle"
    /\ result = [op |-> "clone", err |-> NoErr, head |-> -1, rerun |-> FALSE,
                 faulted |-> FALSE, n |-> checkpoint.N, retry |-> FALSE]
    /\ clone = IdleClone
    /\ producer = IdleProducer
    /\ cancelled = FALSE
    /\ tasks = <<>>
    /\ chans = <<>>
    /\ groupErr = NoErr
    /\ nFetch = 0 /\ nWrite = 0 /\ nSetTile = 0
    /\ faulted = FALSE
    /\ exhausted = -1
    /\ streak = 1
    /\ nFaults = MaxFaults
    /\ corrupted = 0
    /\ audit = "none"
    /\ ServerlessIdle
    /\ CallsIdle

\* No level above this one exists for any checkpoint and height drawn.
MaxHashLevels == GetLevelsForLeafCount(1, MaxHashTree)

\* The steps of the goroutines of one HashTiles call and of its g.Wait().
HashSteps ==
    \/ HashReturn
    \/ \E l \in 0..MaxHashLevels : SendRoot(l)
    \/ \E l \in 1..MaxHashLevels : UpperTile(l)
    \/ \E l \in 1..MaxHashLevels : UpperRecv(l)
    \/ LeafTile

NextHash ==
    \/ HashTiles
    \/ HashSteps

\* While some goroutine of the call can take a step, one of them is
\* scheduled: the weakest fairness the Go scheduler gives.
HashFairness == WF_vars(HashSteps)

SpecHash == InitHash /\ [][NextHash]_vars /\ HashFairness

\* ------------------------------------------ getLevelsForLeafCount on its own
\* The leaf counts drawn: every small one, and the powers of two and their
\* neighbours.
LeafCounts ==
    (0..MaxLeafCount)
    \cup {Pow2(e) + d : e \in 1..MaxLeafBits, d \in {-1, 0, 1}}

InitLevels ==
    /\ height = 1
    /\ InitService
    /\ ServerlessIdle
    /\ levels \in [h : 1..MaxLevelsHeight, n : LeafCounts, out : {<<>>}]
    /\ meta = NoMeta
    /\ sized = NoSize
    /\ tor = NoTor

\* out := s.getLevelsForLeafCount(n), of a Service of height h
CountLevels ==
    /\ levels.out = <<>>
    /\ levels' = [levels EXCEPT
                    !.out = <<GetLevelsForLeafCount(levels.h, levels.n)>>]
    /\ UNCHANGED <<serviceVars, serverlessVars, meta, sized, tor>>

SpecLevels == InitLevels /\ [][CountLevels]_vars

\* -------------------------------------------------------- ProcessMetadata
\* A leaf is its two lines, "module version repoHash" and
\* "module version/go.mod modHash": the module and the version of each line,
\* a version being a sequence of characters.
\* tokens[1][:len(version)]: a slice beyond the length of tokens[1] panics.
VersionHead(version2, version) ==
    IF Len(version2) < Len(version) THEN [panic |-> TRUE, got |-> <<>>]
    ELSE [panic |-> FALSE, got |-> SubSeq(version2, 1, Len(version))]

\* The body of the loop over the leaves of a tile, for the leaf h at leafID.
LeafMetadata(h, offset, leafID) ==
    IF h.module2 # h.module
    THEN [err |-> Err("Module", 0, offset, leafID), panic |-> FALSE, md |-> <<>>]
    ELSE The({IF head.panic
              THEN [err |-> NoErr, panic |-> TRUE, md |-> <<>>]
              ELSE IF head.got # h.version
              THEN [err |-> Err("Version", 0, offset, leafID),
                    panic |-> FALSE, md |-> <<>>]
              ELSE [err |-> NoErr, panic |-> FALSE,
                    md |-> <<h.module, h.version>>] :
              head \in {VersionHead(h.version2, h.version)}})

\* for i, h := range hashes { ... metadata[i] = Metadata{...} }
RECURSIVE TileMetadata(_, _, _, _, _)
TileMetadata(hashes, offset, leafOffset, i, metadata) ==
    IF i >= Len(hashes)
    THEN [err |-> NoErr, panic |-> FALSE, metadata |-> metadata]
    ELSE The({IF r.panic \/ r.err # NoErr
              THEN [err |-> r.err, panic |-> r.panic, metadata |-> metadata]
              ELSE TileMetadata(hashes, offset, leafOffset, i + 1,
                                [metadata EXCEPT ![i + 1] = r.md]) :
              r \in {LeafMetadata(hashes[i + 1], offset, leafOffset + i)}})

\* for offset := 0; offset < int(checkpoint.N/int64(tileWidth)); offset++
\* SetLeafMetadata fails at the tile faultAt, if any.
RECURSIVE MetadataLoop(_, _, _, _, _, _)
MetadataLoop(h, n, offset, metadata, calls, faultAt) ==
    IF offset >= GoDiv(n, Pow2(h))
    THEN [err |-> NoErr, panic |-> FALSE, calls |-> calls]
    ELSE IF ~LeavesPresent(offset * Pow2(h), Pow2(h))
    THEN [err |-> Err("Leaves", 0, offset, -1), panic |-> FALSE,
          calls |-> calls]
    ELSE The({IF t.panic \/ t.err # NoErr
              THEN [err |-> t.err, panic |-> t.panic, calls |-> calls]
              ELSE IF faultAt = offset
              THEN [err |-> Err("StoreFault", 0, offset, -1), panic |-> FALSE,
                    calls |-> Append(calls, [start |-> offset * Pow2(h),
                                             metadata |-> t.metadata,
                                             ok |-> FALSE])]
              ELSE MetadataLoop(h, n, offset + 1, t.metadata,
                                Append(calls, [start |-> offset * Pow2(h),
                                               metadata |-> t.metadata,
                                               ok |-> TRUE]),
                                faultAt) :
              t \in {TileMetadata(SubSeq(leaves, offset * Pow2(h) + 1,
                                         (offset + 1) * Pow2(h)),
                                  offset, offset * Pow2(h), 0, metadata)}})

\* The leaf at index i whose lines agree, and the leaves that differ from
\* it: in the module, in a character of the version, or by a second version
\* shorter than the first.
GoodLeaf(i) == [module |-> i, version |-> <<1, 2>>,
                module2 |-> i, version2 |-> <<1, 2, 0>>]
LeafKinds == {"good", "module", "version", "short"}
LeafOfKind(i, kind) ==
    CASE kind = "module"  -> [GoodLeaf(i) EXCEPT !.module2 = i + 100]
      [] kind = "version" -> [GoodLeaf(i) EXCEPT !.version2 = <<1, 3, 0>>]
      [] kind = "short"   -> [GoodLeaf(i) EXCEPT !.version2 = <<1>>]
      [] OTHER            -> GoodLeaf(i)

\* A store of the whole tiles of a tree, or of one tile fewer, at most one of
\* its leaves not a good one.
InitMeta ==
    /\ height \in 1..MaxHeight
    /\ \E n \in 0..MaxMetaTree :
         /\ checkpoint = [N |-> n, Hash |-> TreeHash(n)]
         /\ \E len \in {(n \div Pow2(height)) * Pow2(height),
                         ((n \div Pow2(height)) * Pow2(height)) - Pow2(height)} :
              /\ len >= 0
              /\ \E bad \in 0..len, kind \in LeafKinds :
                   leaves = [i \in 1..len |->
                               IF i = bad THEN LeafOfKind(i - 1, kind)
                               ELSE GoodLeaf(i - 1)]
    /\ tiles = NoTiles
    /\ phase = "idle"
    /\ result = [op |-> "clone", err |-> NoErr, head |-> -1, rerun |-> FALSE,
                 faulted |-> FALSE, n |-> checkpoint.N, retry |-> FALSE]
    /\ clone = IdleClone
    /\ producer = IdleProducer
    /\ cancelled = FALSE
    /\ tasks = <<>>
    /\ chans = <<>>
    /\ groupErr = NoErr
    /\ nFetch = 0 /\ nWrite = 0 /\ nSetTile = 0
    /\ faulted = FALSE
    /\ exhausted = -1
    /\ streak = 1
    /\ nFaults = 0
    /\ corrupted = 0
    /\ audit = "none"
    /\ ServerlessIdle
    /\ CallsIdle

\* err := s.ProcessMetadata(ctx, checkpoint)
ProcessMetadata ==
    /\ meta.op = "none"
    /\ \E faultAt \in -1..(GoDiv(checkpoint.N, TileWidth) - 1) :
         \E r \in {MetadataLoop(height, checkpoint.N, 0,
                                [i \in 1..TileWidth |-> <<>>], <<>>,
                                faultAt)} :
           meta' = [op |-> "process", err |-> r.err, panic |-> r.panic,
                    calls |-> r.calls]
    /\ UNCHANGED <<serviceVars, serverlessVars, levels, sized, tor>>

SpecMeta == InitMeta /\ [][ProcessMetadata]_vars

\* ----------------------------------------------------- getTORKey on its own
\* Each key file is missing, or holds a key saved before.
InitTor ==
    /\ height = 1
    /\ InitService
    /\ ServerlessIdle
    /\ levels = NoLevels
    /\ meta = NoMeta
    /\ sized = NoSize
    /\ tor \in [fs : [KeyFiles -> {NoFile, FileOf(NewKey(0))}],
                generated : {0}, calls : {<<>>}]

\* torKey, err := getTORKey(*torPrivateKeyFile), once per start of the
\* witness; the read, the key generation and the write may each fail.
GetTORKey ==
    /\ Len(tor.calls) < MaxTorCalls
    /\ \E f \in FileNames, readFault \in BOOLEAN, genFault \in BOOLEAN,
          written \in -1..KeyLength :
         \E r \in {GetTORKeyResult(tor.fs, tor.generated, f, readFault,
                                   genFault, written)} :
           tor' = [fs |-> r.fs, generated |-> r.generated,
                   calls |-> Append(tor.calls,
                                    [f |-> f, key |-> r.key, err |-> r.err,
                                     before |-> tor.fs, after |-> r.fs])]
    /\ UNCHANGED <<serviceVars, serverlessVars, levels, meta, sized>>

SpecTor == InitTor /\ [][GetTORKey]_vars

\* ------------------------------------------------------------ VerifyTiles
\* s.sumDB.TileHashes(level, offset): the hashes of the remote log's tile.
TileHashes(h, level, offset) == TrueTile(h, level, offset)

\* A scan that reports the last slot that differs, not the first.
RECURSIVE LastBadSlot(_, _, _, _)
LastBadSlot(localHashes, sumDBHashes, i, width) ==
    IF i >= width THEN -1
    ELSE The({IF later # -1 THEN later
              ELSE IF sumDBHashes[i + 1] # localHashes[i + 1] THEN i ELSE -1 :
              later \in {LastBadSlot(localHashes, sumDBHashes, i + 1, width)}})

\* for i := 0; i < 1<<s.height; i++ { if sumDBHashes[i] != lHash { return
\* ... } }: the first slot from i on that differs, -1 when none does.
RECURSIVE FirstBadSlot(_, _, _, _)
FirstBadSlot(localHashes, sumDBHashes, i, width) ==
    IF i >= width THEN -1
    ELSE IF sumDBHashes[i + 1] # localHashes[i + 1] THEN i
    ELSE FirstBadSlot(localHashes, sumDBHashes, i + 1, width)

\* The two loops of VerifyTiles from (level, offset) on, after fetched
\* TileHashes calls: the error returned and the TileHashes calls made.
\* fault names the one call that fails, if any: <<"local", level, offset>>
\* for s.localDB.Tile, <<"remote", level, offset>> for s.sumDB.TileHashes.
RECURSIVE VerifyLoop(_, _, _, _, _, _, _)
VerifyLoop(h, ts, K, level, offset, fetched, fault) ==
    IF level > K THEN [err |-> NoErr, fetched |-> fetched]
    ELSE IF fault = <<"local", level, offset>>
    THEN [err |-> Err("StoreFault", level, offset, -1), fetched |-> fetched]
    ELSE IF ~TilePresent(ts, level, offset)
    THEN VerifyLoop(h, ts, K, level + 1, 0, fetched, fault)
    ELSE IF fault = <<"remote", level, offset>>
    THEN [err |-> Err("Fetch", level, offset, -1), fetched |-> fetched + 1]
    ELSE The({IF i # -1
              THEN [err |-> Err("TileMismatch", level, offset, i),
                    fetched |-> fetched + 1]
              ELSE VerifyLoop(h, ts, K, level, offset + 1, fetched + 1, fault) :
              i \in {FirstBadSlot(ts[<<level, offset>>],
                                  TileHashes(h, level, offset), 0, Pow2(h))}})

\* func (s *Service) VerifyTiles(ctx, checkpoint) error
VerifyTiles(h, ts, cp, fault) ==
    VerifyLoop(h, ts, GetLevelsForLeafCount(h, cp.N), 0, 0, 0, fault)

\* The calls of VerifyTiles that may fail: none, or one read of a stored
\* tile, or the remote's answer for one.
VerifyFaults(ts) ==
    {<<"none", 0, 0>>}
    \cup {<<k, c[1], c[2]>> : k \in {"local", "remote"}, c \in DOMAIN ts}

\* The client's call of VerifyTiles on the run's checkpoint.
VerifyCall ==
    /\ phase = "idle"
    /\ ProducerQuiet
    /\ streak >= 2
    /\ \E fault \in VerifyFaults(tiles) :
         \E r \in {VerifyTiles(height, tiles, checkpoint, fault)} :
         LET f == r.err.kind \in {"StoreFault", "Fetch"}
         IN  /\ (fault[1] # "none") => (MayFault /\ f)
             /\ nFaults' = IF f THEN nFaults + 1 ELSE nFaults
             /\ faulted' = f
             /\ result' = Returned("verify", r.err, -1, f)
             /\ nFetch' = r.fetched
    /\ nWrite' = 0 /\ nSetTile' = 0
    /\ exhausted' = -1
    /\ UNCHANGED <<serverlessVars, callVars, height, storeVars, checkpoint, phase, clone,
                   producer, cancelled, hashVars, streak, corrupted, audit>>

\* The stores ts becomes when up to k slots of its tiles change.
RECURSIVE CorruptUpTo(_, _, _)
CorruptUpTo(k, h, ts) ==
    IF k = 0 THEN {ts}
    ELSE {ts} \cup UNION {CorruptUpTo(k - 1, h,
                             SetTile(ts, c[1], c[2],
                                     [i \in 1..Pow2(h) |->
                                        IF i = j THEN BadHash ELSE ts[c][i]])) :
                          c \in DOMAIN ts, j \in 1..Pow2(h)}

\* A store hashed up to a tree of n leaves, up to MaxBadSlots slots of it
\* corrupted, and a checkpoint of that tree or of an earlier, smaller one.
InitVerify ==
    /\ height \in 1..MaxHeight
    /\ \E n \in 1..MaxVerifyTree :
         /\ checkpoint \in {[N |-> m, Hash |-> TreeHash(m)] : m \in {n, n \div 2}}
         /\ leaves = [i \in 1..((n \div Pow2(height)) * Pow2(height)) |->
                         RemoteLeaf(i - 1)]
         /\ tiles \in CorruptUpTo(MaxBadSlots, height, TrueTiles(height, n))
    /\ phase = "idle"
    /\ result = [op |-> "hash", err |-> NoErr, head |-> -1, rerun |-> FALSE,
                 faulted |-> FALSE, n |-> checkpoint.N, retry |-> FALSE]
    /\ clone = IdleClone
    /\ producer = IdleProducer
    /\ cancelled = FALSE
    /\ tasks = <<>>
    /\ chans = <<>>
    /\ groupErr = NoErr
    /\ nFetch = 0 /\ nWrite = 0 /\ nSetTile = 0
    /\ faulted = FALSE
    /\ exhausted = -1
    /\ streak = 2
    /\ nFaults = 0
    /\ corrupted = 0
    /\ audit = "none"
    /\ ServerlessIdle
    /\ CallsIdle

SpecVerify == InitVerify /\ [][VerifyCall]_vars

\* ------------------------------------------- HashTiles on a tampered store
\* A store cloned up to a checkpoint, hashed before in part, in full or not
\* at all, one slot of its tiles changed or none; store operations may fail.
InitTampered ==
    /\ height \in 1..MaxHeight
    /\ \E n \in 0..MaxTamperTree :
         /\ checkpoint = [N |-> n, Hash |-> TreeHash(n)]
         /\ leaves = [i \in 1..((n \div Pow2(height)) * Pow2(height)) |->
                         RemoteLeaf(i - 1)]
         /\ \E m \in {0, n \div 2, n} :
              tiles \in CorruptUpTo(1, height, TrueTiles(height, m))
    /\ phase = "idle"
    /\ result = [op |-> "clone", err |-> NoErr, head |-> -1, rerun |-> FALSE,
                 faulted |-> FALSE, n |-> checkpoint.N, retry |-> FALSE]
    /\ clone = IdleClone
    /\ producer = IdleProducer
    /\ cancelled = FALSE
    /\ tasks = <<>>
    /\ chans = <<>>
    /\ groupErr = NoErr
    /\ nFetch = 0 /\ nWrite = 0 /\ nSetTile = 0
    /\ faulted = FALSE
    /\ exhausted = -1
    /\ streak = 1
    /\ nFaults = 0
    /\ corrupted = 0
    /\ audit = "none"
    /\ ServerlessIdle
    /\ CallsIdle

SpecTampered == InitTampered /\ [][NextHash]_vars

\* ------------------------------------------------ the tile codec on its own
\* A hash whose bytes are all b.
HashBytes(b) == [k \in 1..HashSize |-> ToByte(b)]

\* Position p (from 0) of an in-order Nodes array is the node (l, i) with
\* TileNodeKey(l, i) = p; a tile of n leaves stores it when its 2^l leaves
\* are all below n, the others are ephemeral and left nil.
Stored(n, p) ==
    LET l == TrailingZeros64(p + 1)
        i == (p + 1) \div Pow2(l + 1)
    IN  (i + 1) * Pow2(l) <= n

\* The tile of n leaves: 2n - 1 in-order positions, position p holding a
\* hash of bytes p, the ephemeral positions nil.
TileOf(n) ==
    [NumLeaves |-> n,
     Nodes |-> [q \in 1..(2 * n - 1) |->
                  IF Stored(n, q - 1) THEN HashBytes(q - 1) ELSE <<>>]]

\* The tiles drawn: every size up to MaxTileLeaves, and the full tile.
TileInputs == {TileOf(n) : n \in (1..MaxTileLeaves) \cup {Pow2(TileHeight)}}

\* The encoded inputs drawn: a hash-size byte (right or wrong), a numLeaves
\* byte, and a payload of up to MaxRawHashes hashes, whole or with one more
\* byte; and the two inputs that end inside the header.
RawOf(hs, nl, len) ==
    <<hs, nl>> \o [j \in 1..len |-> ToByte((j - 1) \div HashSize + 1)]

RawInputs ==
    {RawOf(hs, nl, HashSize * k + d) :
        hs \in {HashSize, HashSize - 1}, nl \in 0..MaxRawLeaves,
        k \in 0..MaxRawHashes, d \in {0, 1}}
    \cup {<<>>, <<HashSize>>}

InitCodec ==
    /\ height = 1
    /\ InitService
    /\ CallsIdle
    /\ tile \in TileInputs
    /\ raw \in RawInputs
    /\ codec = NoCall
    /\ coords = NoCoords
    /\ keyed = NoKeys

\* raw, _ = tile.MarshalBinary()
Marshal ==
    /\ codec.op = "none"
    /\ raw' = MarshalBinary(tile)
    /\ codec' = [op |-> "marshal", err |-> "nil", src |-> tile,
                 before |-> tile, in |-> raw]
    /\ UNCHANGED <<serviceVars, callVars, tile, coords, keyed>>

\* err = tile.UnmarshalBinary(raw), of the drawn bytes or of the bytes
\* MarshalBinary returned.
Unmarshal ==
    /\ codec.op \in {"none", "marshal"}
    /\ \E r \in {UnmarshalBinary(tile, raw)} :
         /\ tile' = r.t
         /\ codec' = [op |-> "unmarshal", err |-> r.err, src |-> codec.src,
                      before |-> tile, in |-> raw]
    /\ UNCHANGED <<serviceVars, callVars, raw, coords, keyed>>

\* n := storage.TileSize(&tile)
Size ==
    /\ sized.op = "none"
    /\ \E r \in {TileSize(tile)} :
         sized' = [op |-> "size", panic |-> r.panic, size |-> r.size,
                   t |-> tile]
    /\ UNCHANGED <<serviceVars, serverlessVars, levels, meta, tor>>

NextCodec ==
    \/ Size
    \/ Marshal
    \/ Unmarshal

SpecCodec == InitCodec /\ [][NextCodec]_vars

\* ------------------------------------------- tile addressing on its own
\* The tree indexes drawn: a few tiles' worth at every level, and two large.
TreeIndexes == (0..MaxTreeIndex) \cup {Pow2(30) - 1, Pow2(30)}

InitAddr ==
    /\ height = 1
    /\ InitService
    /\ CallsIdle
    /\ tile = ZeroTile
    /\ raw = <<>>
    /\ codec = NoCall
    /\ coords \in [treeLevel : 0..63, treeIndex : TreeIndexes, addr : {<<>>}]
    /\ keyed = NoKeys

\* tileLevel, tileIndex, nodeLevel, nodeIndex :=
\*     NodeCoordsToTileAddress(treeLevel, treeIndex)
Locate ==
    /\ coords.addr = <<>>
    /\ coords' = [coords EXCEPT
                    !.addr = NodeCoordsToTileAddress(coords.treeLevel,
                                                     coords.treeIndex)]
    /\ UNCHANGED <<serviceVars, callVars, tile, raw, codec, keyed>>

SpecAddr == InitAddr /\ [][Locate]_vars

\* The node after (level, index) of a tile of height H, level by level and
\* left to right; <<>> after the tile's root.
NextNode(H, level, index) ==
    IF index + 1 < Pow2(H - level) THEN <<level, index + 1>>
    ELSE IF level < H THEN <<level + 1, 0>>
    ELSE <<>>

InitKeys ==
    /\ height = 1
    /\ InitService
    /\ CallsIdle
    /\ tile = ZeroTile
    /\ raw = <<>>
    /\ codec = NoCall
    /\ coords = NoCoords
    /\ keyed \in [H : 1..TileHeight, keys : {<<>>}, walk : {<<0, 0>>}]

\* TileNodeKey(level, index) of the next node of the tile.
KeyNode ==
    /\ keyed.walk # <<>>
    /\ keyed' = [keyed EXCEPT
                   !.keys = Append(@, [level |-> keyed.walk[1],
                                       index |-> keyed.walk[2],
                                       key   |-> TileNodeKey(keyed.walk[1],
                                                             keyed.walk[2])]),
                   !.walk = NextNode(keyed.H, keyed.walk[1], keyed.walk[2])]
    /\ UNCHANGED <<serviceVars, callVars, tile, raw, codec, coords>>

SpecKeys == InitKeys /\ [][KeyNode]_vars

\* ----------------------------------------------------------------- claims
\* C1: on a store whose tiles (k, o), o < treeSize \div 2^((k+1)*H), hold the
\* correct subtree hashes, and with the true stragglers from the remote,
\* CheckRootHash succeeds if and only if the checkpoint's root hash is the
\* RFC6962 Merkle root of leaves [0, treeSize), for every treeSize >= 1.
RootCheckIffMerkleRoot ==
    (/\ result.op = "check"
     /\ ~result.faulted
     /\ checkpoint.N >= 1
     /\ tiles = TrueTiles(height, checkpoint.N))
    => (result.err = NoErr <=> checkpoint.Hash = MerkleRoot(0, checkpoint.N))

\* CheckRootHash has accepted a tree of several tile levels and stragglers.
RootCheckAccepted ==
    /\ result.op = "check"
    /\ result.err = NoErr
    /\ height = 2
    /\ checkpoint.N = 19
    /\ checkpoint.Hash = MerkleRoot(0, 19)
    /\ tiles = TrueTiles(2, 19)

\* C2: a CloneLeafTiles call whose checkpoint has treeSize < localLeaves
\* = Head() + 1 returns the remote-regressed error (and has fetched and
\* written nothing).
CloneRejectsRegressed ==
    (/\ phase = "idle"
     /\ result.op = "clone"
     /\ checkpoint.N < result.head + 1)
    => (/\ result.err.kind = "RemoteRegressed"
        /\ nFetch = 0
        /\ nWrite = 0)

\* C3: in a CloneLeafTiles started with Head() + 1 a multiple of 2^H, the
\* chunk about to be written is the next one in request order and its start
\* is Head() + 1 at the moment of the WriteLeaves call.
WritesAreSequential ==
    (/\ phase = "cloning"
     /\ clone.pc = "write"
     /\ (clone.head + 1) % TileWidth = 0)
    => (/\ clone.chunk.start = LocalHead + 1
        /\ clone.chunk.start = (clone.startOffset + clone.i) * TileWidth
        /\ Len(clone.chunk.data) = TileWidth)

\* The second chunk is about to be written while the producer, ahead of the
\* consumer, is retrying the fetch of the third.
SecondChunkWrite ==
    /\ phase = "cloning"
    /\ clone.pc = "write"
    /\ clone.i = 1
    /\ clone.chunk.start = LocalHead + 1
    /\ producer.pc = "fetch"
    /\ producer.i = 2
    /\ producer.tries = MaxRetries

\* C4: whatever CloneLeafTiles runs there were (successful, failed on a fetch
\* or store error, cancelled), the local leaves are leaves [0, Head()] of
\* the remote log: no gap, each leaf the remote leaf of its index.
LeavesAreRemotePrefix ==
    leaves = [i \in 1..(LocalHead + 1) |-> RemoteLeaf(i - 1)]

\* A cancelled run has failed in WriteLeaves after it had written a chunk.
CancelledAfterWrites ==
    /\ phase = "idle"
    /\ result.op = "clone"
    /\ result.err.kind = "WriteLeaves"
    /\ cancelled
    /\ LocalHead > result.head
    /\ LocalHead + 1 < checkpoint.N

\* C5: the second CloneLeafTiles, HashTiles, CheckRootHash pass over a
\* checkpoint, right after a first pass that succeeded, succeeds again and
\* calls neither WriteLeaves nor SetTile (no store or remote fault hits it).
\* streak >= 4: the client has started no other run since the second pass.
RerunIsQuiet ==
    (result.rerun /\ ~result.faulted)
    => (/\ result.err = NoErr
        /\ streak >= 4
           => (nWrite = 0 /\ nSetTile = 0))

\* The second pass has ended: its CheckRootHash has succeeded on a tree of
\* two tile levels.
RerunDone ==
    /\ result.rerun
    /\ result.op = "check"
    /\ result.err = NoErr
    /\ ~result.faulted
    /\ checkpoint.N >= 4
    /\ streak = 6

\* C6: once one stored leaf or one stored tile has changed after a
\* successful clone and hash, the re-audit (HashTiles, then CheckRootHash)
\* never ends with both calls successful.
CorruptionNeverAccepted == audit # "accepted"

\* C7: HashTiles, run on a store whose level-0 tile (0, o) differs in slot j
\* from the record hash of the stored leaf o * 2^H + j, returns a hash
\* mismatch that cites level 0, offset o and slot j.
LeafTileMismatchReported ==
    (/\ phase = "idle"
     /\ result.op = "hash"
     /\ audit \in {"rehashed", "detected"})
    => \A o \in 0..MaxTree : \A j \in 1..TileWidth :
         (/\ TilePresent(tiles, 0, o)
          /\ LeavesPresent(o * TileWidth, TileWidth)
          /\ tiles[<<0, o>>][j] # RecordHash(leaves[o * TileWidth + j]))
         => result.err = Err("HashMismatch", 0, o, j - 1)

\* C8: once a level task of HashTiles has returned an error, no other level
\* task stays blocked forever on a channel.
\* The task of level l waits for a root that no task will send, or for room
\* in a channel that no task will read.
BlockedForever(l) ==
    \/ /\ l >= 1
       /\ tasks[l].pc = "recv"
       /\ chans[l - 1] = <<>>
       /\ Finished(l - 1)
    \/ /\ tasks[l].pc = "send"
       /\ Len(chans[l]) >= ChanCap(TileWidth)
       /\ (l + 1 \in DOMAIN tasks => Finished(l + 1))

ErrorStopsEveryTask ==
    (phase = "hashing" /\ groupErr # NoErr)
    => \A l \in DOMAIN tasks : ~BlockedForever(l)

\* C9: once the run's context is cancelled, the producer of CloneLeafTiles
\* starts no FullLeavesAtOffset fetch.
NoFetchAfterCancel ==
    [][(phase = "cloning" /\ cancelled) => nFetch' = nFetch]_vars

\* C10, as stated: once the fetch of chunk k has exhausted its backoff,
\* CloneLeafTiles returns that error, with exactly the chunks before k
\* written.
ExhaustedFetchReturned ==
    (/\ phase = "idle"
     /\ result.op = "clone"
     /\ exhausted # -1)
    => (/\ result.err = Err("Fetch", -1, clone.startOffset + exhausted, -1)
        /\ LocalHead = result.head + exhausted * TileWidth)

\* C10: once the fetch of chunk k has exhausted its backoff, neither chunk k
\* nor a later chunk is written by the run; and unless a WriteLeaves of an
\* earlier chunk fails first (store fault, or the run is cancelled), the
\* run returns the fetch error with exactly the chunks before k written.
ExhaustedFetchIsFatal ==
    /\ (phase \in {"idle", "cloning"} /\ exhausted # -1)
       => LocalHead <= clone.head + exhausted * TileWidth
    /\ (/\ phase = "idle"
        /\ result.op = "clone"
        /\ exhausted # -1
        /\ result.err.kind # "WriteLeaves")
       => (/\ result.err = Err("Fetch", -1, clone.startOffset + exhausted, -1)
           /\ LocalHead = result.head + exhausted * TileWidth)

\* The fetch of the second chunk has exhausted its backoff; the run has
\* returned that error after it had written the first chunk.
SecondFetchExhausted ==
    /\ phase = "idle"
    /\ result.op = "clone"
    /\ exhausted = 1
    /\ result.err.kind = "Fetch"
    /\ LocalHead = result.head + TileWidth

\* C11: CheckRootHash asks the remote for the stragglers at offset
\* treeSize \div 2^H, treeSize % 2^H of them, and appends their record hashes
\* after the tile ranges: the range then ends at treeSize and its root is the
\* Merkle root over each leaf of [0, treeSize) once (H = 8, treeSize = 300:
\* offset 1 and, after the 256 leaves of tile (0, 0), count 44).
StragglersCompleteTheRange ==
    (/\ result.op = "check"
     /\ ~result.faulted
     /\ checkpoint.N >= 1
     /\ tiles = TrueTiles(height, checkpoint.N))
    => LET n        == checkpoint.N
           r        == CheckLevels(height, tiles, n,
                                   GetLevelsForLeafCount(height, n),
                                   NewEmptyRange(0), FALSE)
           offset   == StragglerTileOffset(height, n)
           count    == StragglersCount(n, r.range.end)
           logRange == AppendAll(r.range, StragglerHashes(
                           PartialLeavesAtOffset(height, offset, count)))
       IN  /\ r.err = NoErr
           /\ offset = n \div TileWidth
           /\ count = n % TileWidth
           /\ logRange.end = n
           /\ GetRootHash(logRange).root = MerkleRoot(0, n)
           /\ result.err.kind # "Calculation"
           /\ StragglerTileOffset(8, 300) = 1
           /\ StragglersCount(300, 256) = 44

\* CheckRootHash has run on a tree of height-1 tiles at two levels with one
\* straggler.
RootCheckWithStraggler ==
    /\ result.op = "check"
    /\ ~result.faulted
    /\ height = 1
    /\ checkpoint.N = 7
    /\ tiles = TrueTiles(1, 7)
    /\ result.err.kind \in {"nil", "RootMismatch"}

\* C12: on an empty log (Head() = -1, checkpoint of treeSize 0) the run
\* CloneLeafTiles, HashTiles, CheckRootHash ends OK and none of its calls
\* goes to the remote log.
EmptyLogRunIsQuiet ==
    (/\ phase = "idle"
     /\ LocalHead = -1
     /\ checkpoint = [N |-> 0, Hash |-> EmptyTreeHash]
     /\ ~result.faulted)
    => (/\ result.err = NoErr
        /\ nFetch = 0)

\* C13: a run on a checkpoint (treeSize >= 1) that follows a run on the same
\* checkpoint which failed in CloneLeafTiles or HashTiles succeeds in each of
\* its calls that no further fault hits; once its CheckRootHash has returned,
\* the store is what a run that never failed leaves: the whole tiles of the
\* remote's leaves up to the checkpoint, and every tile over them, each with
\* its true hashes.
RetryCompletes ==
    (/\ phase = "idle"
     /\ result.retry
     /\ ~result.faulted
     /\ checkpoint.N >= 1)
    => (/\ result.err = NoErr
        /\ result.op = "check"
           => (/\ leaves = [i \in 1..Len(leaves) |-> RemoteLeaf(i - 1)]
               /\ Len(leaves) % TileWidth = 0
               /\ Len(leaves) >= (checkpoint.N \div TileWidth) * TileWidth
               /\ \A c \in DOMAIN TrueTiles(height, checkpoint.N) :
                    c \in DOMAIN tiles
               /\ \A c \in DOMAIN tiles :
                    tiles[c] = TrueTile(height, c[1], c[2])))

\* The run after a failed run has ended: CheckRootHash has accepted a store
\* that is exactly the store of a single run that never failed.
RetryDone ==
    /\ phase = "idle"
    /\ result.retry
    /\ result.op = "check"
    /\ result.err = NoErr
    /\ checkpoint.N = MaxTree
    /\ Len(leaves) = (MaxTree \div TileWidth) * TileWidth
    /\ tiles = TrueTiles(height, MaxTree)

\* C14: a tile of 1..2^H leaves (H = 8), its ephemeral positions nil,
\* that is encoded by MarshalBinary and decoded from those bytes by
\* UnmarshalBinary comes back equal in NumLeaves and in every position of
\* Nodes, and without an error.
TileRoundTrips ==
    (/\ codec.op = "unmarshal"
     /\ codec.src # ZeroTile
     /\ codec.src.NumLeaves \in 1..Pow2(TileHeight))
    => (codec.err = "nil" /\ tile = codec.src)

\* C15: UnmarshalBinary of bytes whose numLeaves byte (the second) is 0
\* returns an error and leaves the receiver as it was.
ZeroLeavesRejected ==
    (/\ codec.op = "unmarshal"
     /\ Len(codec.in) >= 2
     /\ codec.in[2] = 0)
    => (codec.err # "nil" /\ tile = codec.before)

\* C16: UnmarshalBinary of bytes whose payload, the bytes after the two
\* header bytes, is not 32 * (2 * numLeaves - 1) long returns an error, also
\* when the payload is whole hashes short or long; and whenever
\* UnmarshalBinary returns an error the receiver is as it was.
WrongLengthRejected ==
    codec.op = "unmarshal"
    => /\ (/\ Len(codec.in) >= 2
           /\ Len(codec.in) - 2 # HashSize * (2 * codec.in[2] - 1))
          => codec.err # "nil"
       /\ codec.err # "nil" => tile = codec.before

\* The slots (level, offset, slot) of the stored tiles at levels 0..K, K the
\* top level of the checkpoint, that differ from the remote log's tile.
BadSlots ==
    {x \in (0..GetLevelsForLeafCount(height, checkpoint.N))
            \X (0..MaxVerifyTree + 1) \X (0..(TileWidth - 1)) :
        /\ TilePresent(tiles, x[1], x[2])
        /\ tiles[<<x[1], x[2]>>][x[3] + 1] # TrueTile(height, x[1], x[2])[x[3] + 1]}

\* (level, offset, slot) order.
Before(x, y) ==
    \/ x[1] < y[1]
    \/ x[1] = y[1] /\ x[2] < y[2]
    \/ x[1] = y[1] /\ x[2] = y[2] /\ x[3] < y[3]

\* The stored tiles at levels 0..K that come no later than tile (l, o).
TilesUpTo(l, o) ==
    {c \in DOMAIN tiles :
        /\ c[1] <= GetLevelsForLeafCount(height, checkpoint.N)
        /\ (c[1] < l \/ (c[1] = l /\ c[2] <= o))}

\* C19: a VerifyTiles call that no fault fails returns nil exactly when no
\* slot of a stored tile at levels 0..K differs from the remote tile of the
\* same coordinate; otherwise its error names the first differing (level,
\* offset, slot) in ascending order, and it has asked the remote for the
\* tiles up to that one and for none after it.
VerifyReportsFirstMismatch ==
    (result.op = "verify" /\ ~result.faulted)
    => /\ result.err = NoErr <=> BadSlots = {}
       /\ result.err = NoErr
          => nFetch = Cardinality(TilesUpTo(
                          GetLevelsForLeafCount(height, checkpoint.N),
                          MaxVerifyTree + 1))
       /\ \A x \in BadSlots :
            (\A y \in BadSlots : y = x \/ Before(x, y))
            => /\ result.err = Err("TileMismatch", x[1], x[2], x[3])
               /\ nFetch = Cardinality(TilesUpTo(x[1], x[2]))

\* VerifyTiles has reported the first of two differing slots, in the second
\* tile of level 0, and has not looked at level 1.
VerifyStoppedAtFirst ==
    /\ result.op = "verify"
    /\ height = 1
    /\ checkpoint.N = 8
    /\ result.err = Err("TileMismatch", 0, 1, 1)
    /\ tiles[<<1, 0>>][1] = BadHash
    /\ nFetch = 2

\* C17: for every treeLevel < 64 and every treeIndex, the address
\* NodeCoordsToTileAddress returns has nodeLevel < 8 and nodeIndex <
\* 2^(8 - treeLevel mod 8), and gives the input back: treeLevel =
\* 8 * tileLevel + nodeLevel, treeIndex = tileIndex * 2^(8 - nodeLevel) +
\* nodeIndex.
TileAddressInverts ==
    coords.addr # <<>>
    => LET tileLevel == coords.addr[1]
           tileIndex == coords.addr[2]
           nodeLevel == coords.addr[3]
           nodeIndex == coords.addr[4]
       IN  /\ tileLevel >= 0 /\ tileIndex >= 0
           /\ nodeLevel \in 0..7
           /\ nodeIndex \in 0..(Pow2(8 - (coords.treeLevel % 8)) - 1)
           /\ coords.treeLevel = 8 * tileLevel + nodeLevel
           /\ coords.treeIndex = tileIndex * Pow2(8 - nodeLevel) + nodeIndex

\* Node (11, 300) has been located: node (3, 12) of tile (1, 9).
NodeLocated ==
    coords = [treeLevel |-> 11, treeIndex |-> 300, addr |-> <<1, 9, 3, 12>>]

\* C18: over the nodes (level, index) of a full tile of height H, levels
\* 0..H, TileNodeKey = 2^(level+1) * index + 2^level - 1 lies in
\* [0, 2^(H+1) - 1), no two nodes have the same key, and once every node is
\* keyed every index of the interval is some node's key.
TileNodeKeyIsBijection ==
    LET n    == Len(keyed.keys)
        last == keyed.keys[n]
    IN  n >= 1
        => /\ last.key = (Pow2(last.level + 1) * last.index
                           + Pow2(last.level)) - 1
           /\ last.key \in 0..(Pow2(keyed.H + 1) - 2)
           /\ \A k \in 1..(n - 1) : keyed.keys[k].key # last.key
           /\ keyed.walk = <<>>
              => {keyed.keys[k].key : k \in 1..n} = 0..(Pow2(keyed.H + 1) - 2)

\* Every node of a full tile of height 8 is keyed, its root last.
FullTileKeyed ==
    /\ keyed.H = 8
    /\ keyed.walk = <<>>
    /\ Len(keyed.keys) = 511
    /\ keyed.keys[511] = [level |-> 8, index |-> 0, key |-> 255]
    /\ keyed.keys[256] = [level |-> 0, index |-> 255, key |-> 510]

\* The running log range of CheckRootHash once the levels from the top one
\* down to level are done (the top level + 1: before the first).
RECURSIVE RangeAfter(_, _, _, _)
RangeAfter(h, ts, n, level) ==
    IF level > GetLevelsForLeafCount(h, n) THEN NewEmptyRange(0)
    ELSE The({CheckOffsets(h, ts, n, level,
                           FirstTileOffset(h, before.end, level),
                           before, FALSE).range :
              before \in {RangeAfter(h, ts, n, level + 1)}})

\* C21: CheckRootHash goes through the levels K..0 with a running range
\* [0, end): when a level starts, end is a multiple of the level's
\* tileLeafCount = 2^((level+1)*H) and the first tile read is the one that
\* begins at end; when it is done, end is levelTileCount * tileLeafCount; and
\* after level 0 end = (treeSize \div 2^H) * 2^H.  (H = 2, treeSize = 16:
\* tile 0 of level 1 is read, no tile of level 0, end = 16.)
LevelsKeepPerfectPrefix ==
    (/\ result.op = "check"
     /\ ~result.faulted
     /\ tiles = TrueTiles(height, checkpoint.N))
    => LET n == checkpoint.N
           K == GetLevelsForLeafCount(height, n)
       IN  /\ \A level \in 0..K :
                LET before == RangeAfter(height, tiles, n, level + 1)
                    after  == RangeAfter(height, tiles, n, level)
                    count  == TileLeafCount(height, level)
                    first  == FirstTileOffset(height, before.end, level)
                IN  /\ before.begin = 0 /\ after.begin = 0
                    /\ before.end % count = 0
                    /\ first * count = before.end
                    /\ first <= LevelTileCount(height, n, level)
                    /\ after.end = LevelTileCount(height, n, level) * count
           /\ RangeAfter(height, tiles, n, 0).end = (n \div TileWidth) * TileWidth
           /\ result.err.kind \notin {"TileMissing", "NewRange", "Calculation"}
           /\ (height = 2 /\ n = 16)
              => /\ K = 1
                 /\ FirstTileOffset(2, 0, 1) = 0 /\ LevelTileCount(2, 16, 1) = 1
                 /\ RangeAfter(2, tiles, 16, 1).end = 16
                 /\ FirstTileOffset(2, 16, 0) = LevelTileCount(2, 16, 0)
                 /\ RangeAfter(2, tiles, 16, 0).end = 16

\* CheckRootHash has accepted the tree of 16 leaves on tiles of height 2.
RootCheckOfSixteen ==
    /\ result.op = "check"
    /\ result.err = NoErr
    /\ height = 2
    /\ checkpoint.N = 16
    /\ tiles = TrueTiles(2, 16)

\* C22: when no store operation fails and no stored tile differs, every
\* HashTiles call returns, and returns nil, whatever the treeSize and the
\* tile height: no level task stays blocked on a channel, the roots a level
\* leaves unread never being more than the channel holds.
HashTilesTerminates ==
    /\ [](\A l \in DOMAIN chans : Len(chans[l]) <= ChanCap(TileWidth))
    /\ (phase = "hashing")
       ~> (phase = "idle" /\ result.op = "hash" /\ result.err = NoErr)

\* Every level task of a HashTiles over 16 leaves has returned, the top
\* level's root left unread on its output channel.
TopRootLeftUnread ==
    /\ phase = "hashing"
    /\ height = 1
    /\ checkpoint.N = 16
    /\ DOMAIN tasks = 0..3
    /\ \A l \in DOMAIN tasks : tasks[l].pc = "done"
    /\ Len(chans[3]) = 1

\* C23: no step of a HashTiles run, successful or failed, changes or removes
\* a stored tile, and every SetTile it calls is for a coordinate that holds
\* no tile: the call either adds a coordinate or fails in the store.
HashTilesNeverOverwrites ==
    [][phase = "hashing" =>
         /\ \A c \in DOMAIN tiles : c \in DOMAIN tiles' /\ tiles'[c] = tiles[c]
         /\ nSetTile' # nSetTile =>
               \/ DOMAIN tiles' # DOMAIN tiles
               \/ nFaults' # nFaults]_vars

\* A HashTiles run over a store with a corrupted tile has reported the
\* difference, the corrupted tile still stored as it was.
MismatchLeftStored ==
    /\ result.op = "hash"
    /\ result.err.kind = "HashMismatch"
    /\ \E c \in DOMAIN tiles : \E i \in DOMAIN tiles[c] : tiles[c][i] = BadHash

\* The root of the stored tile at (level, offset): its slots hashed together.
TileRoot(level, offset) ==
    TileRange(offset * TileWidth, tiles[<<level, offset>>]).hashes[1]

\* C24: after a HashTiles that returned nil at a checkpoint of treeSize N,
\* every tile (k, o) with 1 <= k <= K and o < floor(N / 2^((k+1)*H)) is
\* stored, and its slot i is the root of the stored tile (k-1, o*2^H + i).
UpperTilesHoldLowerRoots ==
    (result.op = "hash" /\ result.err = NoErr)
    => \A k \in 1..GetLevelsForLeafCount(height, result.n) :
         \A o \in 0..((result.n \div Pow2((k + 1) * height)) - 1) :
           /\ TilePresent(tiles, k, o)
           /\ \A i \in 0..(TileWidth - 1) :
                /\ TilePresent(tiles, k - 1, o * TileWidth + i)
                /\ tiles[<<k, o>>][i + 1] = TileRoot(k - 1, o * TileWidth + i)

\* HashTiles has returned nil for a tree of three levels of tiles.
HashedThreeLevels ==
    /\ result.op = "hash"
    /\ result.err = NoErr
    /\ height = 1
    /\ result.n = 8
    /\ TilePresent(tiles, 2, 0)

\* The full tiles of level k of a tree of n leaves:
\* floor(n / 2^((k+1)*h)), divided level by level.
RECURSIVE FullTilesAt(_, _, _)
FullTilesAt(h, n, k) ==
    IF k < 0 THEN n ELSE FullTilesAt(h, n, k - 1) \div Pow2(h)

\* C25: getLevelsForLeafCount(treeSize) is -1 when treeSize < 2^H, and
\* otherwise the largest k with treeSize >= 2^((k+1)*H): level K holds
\* between 1 and 2^H - 1 full tiles and the levels above hold none.
LevelsIsTopFullLevel ==
    levels.out # <<>>
    => LET h == levels.h
           n == levels.n
           K == levels.out[1]
       IN  /\ K >= -1
           /\ (K = -1) <=> (n < Pow2(h))
           /\ K >= 0 =>
                /\ n >= Pow2((K + 1) * h)
                /\ FullTilesAt(h, n, K) \in 1..(Pow2(h) - 1)
           /\ \A k \in 0..K : FullTilesAt(h, n, k) >= 1
           /\ \A k \in (K + 1)..(K + 3) : FullTilesAt(h, n, k) = 0

\* getLevelsForLeafCount has returned 2 for a tree of 2^24 leaves in tiles
\* of height 8.
LevelsOfLargeTree ==
    /\ levels.h = 8
    /\ levels.n = Pow2(24)
    /\ levels.out = <<2>>

\* C26: a CloneLeafTiles that returned nil at a checkpoint of treeSize N,
\* started with localLeaves = Head() + 1, has made
\* floor((N - localLeaves) / 2^H) fetches that returned leaves, one
\* WriteLeaves for each, and left Head() + 1 = floor(N / 2^H) * 2^H, the
\* leaves stored being those of the log in its order.
CloneCopiesWholeTiles ==
    (phase = "idle" /\ result.op = "clone" /\ result.err = NoErr)
    => LET localLeaves == result.head + 1
           chunks      == (result.n - localLeaves) \div TileWidth
       IN  /\ localLeaves % TileWidth = 0
           /\ nWrite = chunks
           /\ nFetch >= chunks
           /\ nFetch <= chunks * (MaxRetries + 1)
           /\ LocalHead + 1 = (result.n \div TileWidth) * TileWidth
           /\ \A i \in 1..Len(leaves) : leaves[i] = RemoteLeaf(i - 1)

\* C27: once CloneLeafTiles has returned, with nil, a fetch error or a
\* WriteLeaves error, its producer goroutine starts no FullLeavesAtOffset
\* and is not parked on a send to a channel that has no receiver left.
ProducerEndsWithClone ==
    [][phase # "cloning" =>
         /\ producer.pc \notin {"sendLeaf", "sendErr"}
         /\ producer.pc = "fetch" => producer' = producer]_vars

\* C28: in every state reached from an empty tile store by HashTiles runs,
\* those that fail part-way included, the offsets stored at each level are
\* 0 up to some m_k with no gap: the tile before a stored tile is stored.
StoredOffsetsFormPrefix ==
    \A c \in DOMAIN tiles :
        c[2] > 0 => TilePresent(tiles, c[1], c[2] - 1)

\* A HashTiles run has failed after it stored the first leaf tile and
\* before it stored the second.
HashFailedPartWay ==
    /\ result.op = "hash"
    /\ result.err # NoErr
    /\ result.n >= 2 * TileWidth
    /\ TilePresent(tiles, 0, 0)
    /\ ~TilePresent(tiles, 0, 1)

\* The leaf's two lines disagree: in the module, or the version of the
\* second line does not begin with the version of the first.
FailsCrossCheck(h) ==
    \/ h.module2 # h.module
    \/ Len(h.version2) < Len(h.version)
    \/ SubSeq(h.version2, 1, Len(h.version)) # h.version

\* The tiles of the checkpoint one of whose leaves fails the cross-check.
FailingTiles ==
    {o \in 0..((checkpoint.N \div TileWidth) - 1) :
        /\ LeavesPresent(o * TileWidth, TileWidth)
        /\ \E i \in 1..TileWidth : FailsCrossCheck(leaves[o * TileWidth + i])}

\* C29: ProcessMetadata calls SetLeafMetadata once per full leaf tile, in
\* ascending offset order, with startIndex = offset * 2^H; when a leaf of
\* tile o fails the cross-check of its two lines it returns an error, and
\* no SetLeafMetadata call is made for tile o or a later tile.
MetadataWrittenPerTile ==
    meta.op = "process"
    => /\ \A j \in 1..Len(meta.calls) :
            meta.calls[j].start = (j - 1) * TileWidth
       /\ Len(meta.calls) <= checkpoint.N \div TileWidth
       /\ (meta.err = NoErr /\ ~meta.panic) =>
             Len(meta.calls) = checkpoint.N \div TileWidth
       /\ \A o \in FailingTiles :
            /\ ~meta.panic
            /\ meta.err # NoErr
            /\ Len(meta.calls) <= o

\* C30: for a tile whose Nodes hold the in-order hashes of n populated
\* level-0 slots (2n - 1 positions, 1 <= n <= 256), TileSize returns n.
TileSizeCountsLeaves ==
    (sized.op = "size" /\ sized.t \in TileInputs)
    => /\ ~sized.panic
       /\ sized.size = sized.t.NumLeaves

\* C31: getTORKey is stable across restarts.  With a file name f of a
\* missing file, a call that succeeds has generated a new key and left it
\* in f, and every later call with f that succeeds returns the key stored
\* in f, the key the first call returned, and writes nothing; a read error
\* other than not-exist returns an error and no key and leaves every file
\* as it was; with the empty name the call returns no key and no error and
\* touches no file.
TorKeyIsStable ==
    \A i \in 1..Len(tor.calls) :
      LET c == tor.calls[i]
      IN  /\ c.err # "nil" => c.key = NoTorKey
          /\ c.f = "" => (c.key = NoTorKey /\ c.err = "nil" /\ c.after = c.before)
          /\ c.err \in {"read", "generate"} => c.after = c.before
          /\ \A g \in KeyFiles : g # c.f => c.after[g] = c.before[g]
          /\ (c.f # "" /\ c.err = "nil") =>
               /\ c.after[c.f] = FileOf(c.key.private)
               /\ c.key = KeyPair(c.key.private)
               /\ IF c.before[c.f].state = "absent"
                  THEN /\ Len(c.key.private) = KeyLength
                       /\ \A j \in 1..(i - 1) : tor.calls[j].key # c.key
                       /\ \A g \in KeyFiles : c.before[g].data # c.key.private
                  ELSE c.after = c.before
               /\ \A j \in (i + 1)..Len(tor.calls) :
                    (tor.calls[j].f = c.f /\ tor.calls[j].err = "nil")
                    => /\ tor.calls[j].key = c.key
                       /\ tor.calls[j].after = tor.calls[j].before

\* A first start has generated a key for a missing file, and a start after
\* it, with the same file, has returned that key.
TorKeyReloaded ==
    /\ Len(tor.calls) >= 2
    /\ tor.calls[1].f = "a"
    /\ tor.calls[1].before["a"] = NoFile
    /\ tor.calls[1].err = "nil"
    /\ tor.calls[2].f = "a"
    /\ tor.calls[2].err = "nil"
    /\ tor.calls[2].key = tor.calls[1].key
    /\ tor.calls[2].key = KeyPair(NewKey(1))

====
